---------------------------- MODULE Spec2Model ----------------------------
(***************************************************************************)
(* Context-window management of local-ai-chat.                             *)
(*                                                                         *)
(* src/src/core/tokens.py           estimate_tokens                        *)
(* src/src/core/context_manager.py  ContextManager                         *)
(* src/src/core/foundry_cli.py      FoundryCLI: the chat sessions          *)
(*                                                                         *)
(* A Python str is a sequence of one-character strings.  A content value   *)
(* is a tagged Python value (str, int, list or None), so the estimator's   *)
(* truthiness test and its .strip() call behave as they do in Python.  A   *)
(* message is a dict: a record with the field role and usually content     *)
(* and ts, plus the field id that stands for the identity of the dict      *)
(* object: the dicts of the caller's list have the ids 1..n, a dict made   *)
(* by dict.copy() during a call has an id <= 0.                            *)
(***************************************************************************)
EXTENDS Integers, Sequences, FiniteSets, TLC

VARIABLES max_tokens, reserve_tokens, available_tokens, history, call

\* FoundryCLI: the fields _proc, _reader_thread, _chat_sessions,
\* _current_chat_id and _buffer; pending, the prompts written to the
\* backend process that it has not answered yet; sent, the number of
\* send_prompt calls; main, where the thread calling the FoundryCLI stands;
\* the field _context_cache; reader, where the reader thread stands in
\* _on_assistant_msg; the field _current_request_id
VARIABLES _proc, _reader_thread, _chat_sessions, _current_chat_id, _buffer,
          pending, sent, main, _context_cache, reader, _current_request_id

cli == <<_proc, _reader_thread, _chat_sessions, _current_chat_id, _buffer,
         pending, sent, main, _context_cache, reader, _current_request_id>>

\* TokenTracker, the one instance of the module: the fields _chat_tokens,
\* _pending_requests, _lock (the thread that holds it, or None) and
\* _callbacks; thread, the stack of calls each thread is in, the innermost
\* call first
VARIABLES _chat_tokens, _pending_requests, _lock, _callbacks, thread

tracker == <<_chat_tokens, _pending_requests, _lock, _callbacks, thread>>

vars == <<max_tokens, reserve_tokens, available_tokens, history, call, cli,
          tracker>>

-----------------------------------------------------------------------------
(* Bounds of the exploration.                                              *)

\* longest history the caller builds
MaxLen == 4

\* longest history whose tokens the caller asks for
MaxUsageLen == 3

\* longest text given to estimate_tokens alone
MaxTextLen == 5

\* most send_prompt calls
MaxPrompts == 3

\* the longest history that is summarized
MaxSummaryLen == 6

\* most send_prompt calls of a chat with long turns
MaxTurns == 2

\* most send_prompt calls of a caller that also restores and clears chats
MaxSessionPrompts == 1

-----------------------------------------------------------------------------
(* Python values.                                                          *)

PyStr(s) == [type |-> "str", val |-> s]

PyInt(n) == [type |-> "int", int |-> n]

PyNone == [type |-> "NoneType"]

\* a list of ints
PyList(l) == [type |-> "list", list |-> l]

\* bool(v): the empty str, 0 and None are falsy
Truthy(v) ==
    CASE v.type = "str" -> v.val # <<>>
      [] v.type = "int" -> v.int # 0
      [] v.type = "list" -> v.list # <<>>
      [] OTHER -> FALSE

\* the exception a str method raises on a value that is not a str;
\* used as the result of an operator whose Python function raised
AttributeError == -1

\* dict.get(key, default)
Get(m, key, default) == IF key \in DOMAIN m THEN m[key] ELSE default

\* v or default
Or(v, default) == IF Truthy(v) THEN v ELSE default

DigitChars == <<"0","1","2","3","4","5","6","7","8","9">>

RECURSIVE DigitsOf(_)
\* the decimal digits of n >= 0
DigitsOf(n) ==
    IF n < 10 THEN <<DigitChars[n + 1]>>
    ELSE DigitsOf(n \div 10) \o <<DigitChars[(n % 10) + 1]>>

\* str(n) of an int
IntStr(n) == IF n < 0 THEN <<"-">> \o DigitsOf(0 - n) ELSE DigitsOf(n)

RECURSIVE Joined(_, _)
\* ', '.join(str(x) for x in l[k:])
Joined(l, k) ==
    IF k > Len(l) THEN <<>>
    ELSE IF k = Len(l) THEN IntStr(l[k])
    ELSE IntStr(l[k]) \o <<",", " ">> \o Joined(l, k + 1)

\* str(v): the characters of the str Python makes of a value
str(v) ==
    CASE v.type = "str" -> v.val
      [] v.type = "int" -> IntStr(v.int)
      [] v.type = "list" -> <<"[">> \o Joined(v.list, 1) \o <<"]">>
      [] OTHER -> <<"N","o","n","e">>

-----------------------------------------------------------------------------
(* Characters and the str methods the code uses.                           *)

LowerLetters == <<"a","b","c","d","e","f","g","h","i","j","k","l","m",
                  "n","o","p","q","r","s","t","u","v","w","x","y","z">>

UpperLetters == <<"A","B","C","D","E","F","G","H","I","J","K","L","M",
                  "N","O","P","Q","R","S","T","U","V","W","X","Y","Z">>

Digits == {"0","1","2","3","4","5","6","7","8","9"}

\* the character U+0060, which a TLA+ string cannot hold
Backtick == "U+0060"

\* \w of the re module
WordChars == {LowerLetters[i] : i \in 1..26} \cup
             {UpperLetters[i] : i \in 1..26} \cup Digits \cup {"_"}

\* \s of the re module
SpaceChars == {" ", "\t", "\n", "\r", "\f"}

IsWord(c) == c \in WordChars

IsSpace(c) == c \in SpaceChars

\* str.lower()
lower(s) ==
    [i \in 1..Len(s) |->
        IF \E k \in 1..26 : UpperLetters[k] = s[i]
        THEN LowerLetters[CHOOSE k \in 1..26 : UpperLetters[k] = s[i]]
        ELSE s[i]]

\* str.strip()
strip(s) ==
    IF s = <<>> THEN s
    ELSE IF ~IsSpace(s[1]) /\ ~IsSpace(s[Len(s)]) THEN s
    ELSE LET keep == {i \in 1..Len(s) : ~IsSpace(s[i])}
         IN  IF keep = {} THEN <<>>
             ELSE SubSeq(s, CHOOSE i \in keep : \A j \in keep : i <= j,
                            CHOOSE i \in keep : \A j \in keep : j <= i)

\* marker in content
Contains(marker, content) ==
    \E i \in 0..(Len(content) - Len(marker)) :
        SubSeq(content, i + 1, i + Len(marker)) = marker

\* content[:n]
Prefix(content, n) ==
    IF n <= 0 THEN <<>>
    ELSE IF n >= Len(content) THEN content
    ELSE SubSeq(content, 1, n)

\* len(_TOKEN_PATTERN.findall(s)): one match per maximal run of word
\* characters and one per character that is neither word nor space
FindallCount(s) ==
    Cardinality({i \in 1..Len(s) :
        \/ IsWord(s[i]) /\ (i = 1 \/ ~IsWord(s[i - 1]))
        \/ ~IsWord(s[i]) /\ ~IsSpace(s[i])})

\* StrTokens as a bug would have it: the smaller of the two estimates
StrTokens_smaller(s) ==
    LET t == strip(s)
        by_regex == FindallCount(t)
        by_chars == (Len(t) + 3) \div 4
    IN  IF t = <<>> THEN 0
        ELSE IF by_regex <= by_chars THEN by_regex ELSE by_chars

\* estimate_tokens on a str
StrTokens(s) ==
    LET t == strip(s)
        by_regex == FindallCount(t)
        by_chars == (Len(t) + 3) \div 4
    IN  IF t = <<>> THEN 0
        ELSE IF by_regex >= by_chars THEN by_regex ELSE by_chars

\* estimate_tokens(text) for any Python value: 0 for a falsy value,
\* AttributeError when a truthy value has no strip method
estimate_tokens(text) ==
    IF ~Truthy(text) THEN 0
    ELSE IF text.type # "str" THEN AttributeError
    ELSE StrTokens(text.val)

\* per-message overhead of estimate_messages_tokens
overhead == 4

RECURSIVE estimate_messages_tokens_str_only(_)
\* estimate_messages_tokens as a bug would have it: a content that is no
\* str counts as ''
estimate_messages_tokens_str_only(messages) ==
    IF messages = <<>> THEN 0
    ELSE LET content == Get(Head(messages), "content", PyStr(<<>>))
         IN  (IF content.type = "str" THEN StrTokens(content.val) ELSE 0)
             + overhead
             + estimate_messages_tokens_str_only(Tail(messages))

RECURSIVE estimate_messages_tokens(_)
\* estimate_messages_tokens(messages): for each message the estimate of
\* str(content or '') plus the overhead, the overhead alone when the
\* estimate raised
estimate_messages_tokens(messages) ==
    IF messages = <<>> THEN 0
    ELSE LET m == Head(messages)
             t == estimate_tokens(
                      PyStr(str(Or(Get(m, "content", PyStr(<<>>)),
                                   PyStr(<<>>)))))
         IN  (IF t = AttributeError THEN overhead ELSE t + overhead)
             + estimate_messages_tokens(Tail(messages))

\* re.split(r'[.!?]+', content)
IsTerminator(c) == c \in {".", "!", "?"}

RECURSIVE SplitFrom(_, _, _)
SplitFrom(s, i, piece) ==
    IF i > Len(s) THEN <<piece>>
    ELSE IF IsTerminator(s[i])
         THEN LET rest == {k \in i..Len(s) : ~IsTerminator(s[k])}
                  next == IF rest = {} THEN Len(s) + 1
                          ELSE CHOOSE k \in rest : \A j \in rest : k <= j
              IN  <<piece>> \o SplitFrom(s, next, <<>>)
         ELSE SplitFrom(s, i + 1, Append(piece, s[i]))

re_split(content) == SplitFrom(content, 1, <<>>)

-----------------------------------------------------------------------------
(* ContextManager.                                                         *)

\* the literal '' that the code passes as the default of m.get('content', '')
EmptyStr == PyStr(<<>>)

\* the "..." the code appends to a truncated content
Ellipsis == <<".", ".", ".">>

RECURSIVE KeepSentences(_, _, _, _)
\* the loop of _truncate_content over the sentences, from sentence k on
KeepSentences(sentences, k, truncated, limit) ==
    IF k > Len(sentences) THEN truncated
    ELSE LET test_content == truncated \o sentences[k] \o <<".">>
         IN  IF StrTokens(test_content) <= limit
             THEN KeepSentences(sentences, k + 1, test_content, limit)
             ELSE truncated

\* _truncate_content(content, max_tokens) on a str
_truncate_content(content, limit) ==
    IF StrTokens(content) <= limit THEN content
    ELSE LET sentences == re_split(content)
             truncated == IF Len(sentences) > 1
                          THEN KeepSentences(sentences, 1, <<>>, limit)
                          ELSE <<>>
             max_chars == limit * 3
         IN  IF truncated # <<>> THEN truncated \o Ellipsis
             ELSE IF Len(content) > max_chars
                  THEN Prefix(content, max_chars) \o Ellipsis
                  ELSE content

UserMarkers ==
    { <<"?">>, <<"h","o","w">>, <<"w","h","a","t">>, <<"w","h","y">>,
      <<"w","h","e","n">>, <<"w","h","e","r","e">>,
      <<"c","a","n"," ","y","o","u">>, <<"p","l","e","a","s","e">> }

AssistantMarkers ==
    { <<Backtick, Backtick, Backtick>>, <<"d","e","f"," ">>, <<"c","l","a","s","s"," ">>,
      <<"i","m","p","o","r","t"," ">>,
      <<"f","u","n","c","t","i","o","n">>, <<"m","e","t","h","o","d">>,
      <<"1",".">>, <<"2",".">>, <<"-"," ">>, <<"*"," ">>,
      <<"s","t","e","p","s",":">>, <<"e","x","a","m","p","l","e",":">> }

\* _is_important_message as a bug would have it: the markers of a user
\* message count whatever the role
_is_important_message_any_role(message) ==
    LET content == lower(Get(message, "content", EmptyStr).val)
    IN  \E marker \in UserMarkers : Contains(marker, content)

\* _is_important_message(message); the caller passes only messages whose
\* content estimate_tokens accepted with a positive count, i.e. a str
_is_important_message(message) ==
    LET content == lower(Get(message, "content", EmptyStr).val)
        role == Get(message, "role", "")
    IN  IF role = "user"
        THEN \E marker \in UserMarkers : Contains(marker, content)
        ELSE IF role = "assistant"
        THEN \E marker \in AssistantMarkers : Contains(marker, content)
        ELSE FALSE

\* copy as a bug would have it: truncated_msg = message, no new dict
copy_alias(message, selected) == message

\* message.copy(): a new dict object with the same items; the objects made
\* during one call get the ids 0, -1, ...
copy(message, selected) ==
    [message EXCEPT !.id = 0 - Cardinality({i \in 1..Len(selected) :
                                               selected[i].id <= 0})]

\* obj['content'] = value: the item assignment reaches every reference to
\* the object obj in the list
SetContent(list, obj, value) ==
    [i \in 1..Len(list) |->
        IF list[i].id = obj.id
        THEN [k \in DOMAIN list[i] \cup {"content"} |->
                 IF k = "content" THEN value ELSE list[i][k]]
        ELSE list[i]]

\* InsertFirst as a bug would have it: selected.append(message)
InsertFirst_append(selected, message) == selected \o <<message>>

\* selected.insert(0, message)
InsertFirst(selected, message) == <<message>> \o selected

\* Fits as a bug would have it: a message that takes the budget to the
\* token does not fit
Fits_strict(current_tokens, msg_tokens, token_budget) ==
    current_tokens + msg_tokens < token_budget

\* if current_tokens + msg_tokens <= token_budget
Fits(current_tokens, msg_tokens, token_budget) ==
    current_tokens + msg_tokens <= token_budget

RECURSIVE Scan(_, _, _, _, _)
\* the loop of _select_conversation_history, about to visit messages[i]
\* (reversed: i runs from Len(messages) down to 1); the result has the
\* list selected, the list messages as the loop leaves it and exc, TRUE
\* when the loop raised
Scan(messages, i, selected, current_tokens, token_budget) ==
    IF i = 0
    THEN [selected |-> selected, messages |-> messages, exc |-> FALSE]
    ELSE
    LET message == messages[i]
        content == Get(message, "content", EmptyStr)
        msg_tokens == estimate_tokens(content)
    IN  IF msg_tokens = AttributeError
        THEN [selected |-> selected, messages |-> messages, exc |-> TRUE]
        ELSE IF Fits(current_tokens, msg_tokens, token_budget)
        THEN Scan(messages, i - 1, InsertFirst(selected, message),
                  current_tokens + msg_tokens, token_budget)
        ELSE IF _is_important_message(message) /\ Len(selected) < 2
        THEN LET remaining_budget == token_budget - current_tokens
                 truncated_content ==
                     _truncate_content(content.val, remaining_budget)
                 truncated_msg == copy(message, selected)
             IN  IF remaining_budget > 50 /\ truncated_content # <<>>
                 THEN [selected |->
                          InsertFirst(selected,
                              SetContent(<<truncated_msg>>, truncated_msg,
                                         PyStr(truncated_content))[1]),
                       messages |->
                          SetContent(messages, truncated_msg,
                                     PyStr(truncated_content)),
                       exc |-> FALSE]
                 ELSE Scan(messages, i - 1, selected, current_tokens,
                           token_budget)
        ELSE [selected |-> selected, messages |-> messages, exc |-> FALSE]

\* _select_conversation_history(messages, token_budget)
_select_conversation_history(messages, token_budget) ==
    IF messages = <<>>
    THEN [selected |-> <<>>, messages |-> messages, exc |-> FALSE]
    ELSE Scan(messages, Len(messages), <<>>, 0, token_budget)

IsSystem(m) == Get(m, "role", PyNone) = "system"

NotSystem(m) == Get(m, "role", PyNone) # "system"

RECURSIVE SumTokens(_)
\* sum(estimate_tokens(m.get('content', '')) for m in messages)
SumTokens(messages) ==
    IF messages = <<>> THEN 0
    ELSE LET t == estimate_tokens(Get(Head(messages), "content", EmptyStr))
             rest == SumTokens(Tail(messages))
         IN  IF t = AttributeError \/ rest = AttributeError
             THEN AttributeError
             ELSE t + rest

\* the caller's list after the call: each dict of the list in the state
\* in which the call left that object
Merge(messages, touched) ==
    [i \in 1..Len(messages) |->
        IF \E j \in 1..Len(touched) : touched[j].id = messages[i].id
        THEN touched[CHOOSE j \in 1..Len(touched) :
                        touched[j].id = messages[i].id]
        ELSE messages[i]]

\* the outcome of a call: exc, TRUE when it raised; ret, the list it returned
Returned(ret) == [exc |-> FALSE, ret |-> ret]

Raised == [exc |-> TRUE, ret |-> <<>>]

\* LastMessage as a bug would have it: other_messages[0]
LastMessage_first(other_messages) == other_messages[1]

\* other_messages[-1]
LastMessage(other_messages) == other_messages[Len(other_messages)]

\* other_messages[:-1] if len(other_messages) > 1 else []
ConversationMessages(other_messages) ==
    SubSeq(other_messages, 1, Len(other_messages) - 1)

\* NoSpaceForHistory as a bug would have it: available_for_history < 0
NoSpaceForHistory_strict(available_for_history) == available_for_history < 0

\* if available_for_history <= 0
NoSpaceForHistory(available_for_history) == available_for_history <= 0

\* RequiredMessages as a bug would have it: only the prompt when there is
\* no space
RequiredMessages_prompt_only(system_messages, last_message) ==
    <<last_message>>

\* result = system_messages[:]; result.append(last_message)
RequiredMessages(system_messages, last_message) ==
    system_messages \o <<last_message>>

\* Combined as a bug would have it: the history before the system messages
Combined_history_first(system_messages, selected_history, last_message) ==
    selected_history \o system_messages \o <<last_message>>

\* result = system_messages[:]; result.extend(selected_history);
\* result.append(last_message)
Combined(system_messages, selected_history, last_message) ==
    system_messages \o selected_history \o <<last_message>>

\* estimate_total_tokens(messages)
estimate_total_tokens(messages) == SumTokens(messages)

\* truncate_messages(messages) of a manager whose available_tokens is
\* available: the outcome of the call and the caller's list after it
truncate_messages(messages, available) ==
    IF messages = <<>>
    THEN [out |-> Returned(messages), messages |-> messages]
    ELSE
    LET system_messages == SelectSeq(messages, IsSystem)
        other_messages == SelectSeq(messages, NotSystem)
    IN  IF other_messages = <<>>
        THEN [out |-> Returned(system_messages), messages |-> messages]
        ELSE
        LET last_message == LastMessage(other_messages)
            conversation_messages == ConversationMessages(other_messages)
            system_tokens == SumTokens(system_messages)
            last_message_tokens ==
                estimate_tokens(Get(last_message, "content", EmptyStr))
            required_tokens == system_tokens + last_message_tokens
            available_for_history == available - required_tokens
            history_scan ==
                _select_conversation_history(conversation_messages,
                                             available_for_history)
        IN  IF \/ system_tokens = AttributeError
               \/ last_message_tokens = AttributeError
            THEN [out |-> Raised, messages |-> messages]
            ELSE IF NoSpaceForHistory(available_for_history)
            THEN [out |-> Returned(RequiredMessages(system_messages,
                                                    last_message)),
                  messages |-> messages]
            ELSE IF history_scan.exc
            THEN [out |-> Raised,
                  messages |-> Merge(messages, history_scan.messages)]
            ELSE [out |-> Returned(Combined(system_messages,
                                            Merge(history_scan.selected,
                                                  history_scan.messages),
                                            last_message)),
                  messages |-> Merge(messages, history_scan.messages)]

RECURSIVE FloorLog2(_)
\* the exponent of the float k >= 1: the e with 2^e <= k < 2^(e+1)
FloorLog2(k) == IF k < 2 THEN 0 ELSE 1 + FloorLog2(k \div 2)

\* total > n * 0.7 as Python computes it: n * 0.7 is the double nearest
\* to n times the double 0.7, which is 0.7 - 0.4 * 2^-53.  When 10 does
\* not divide n the product is far from any int; when it does, the exact
\* product is 7n/10 less 0.4n * 2^-53, and it rounds to the double below
\* 7n/10 when that is more than half the spacing 2^(e-52) of the doubles
\* there (a tie rounds to 7n/10, whose significand is even)
GreaterThanProduct(total, n) ==
    IF n <= 0 THEN total > 0 \/ n < 0
    ELSE IF n % 10 # 0 THEN 10 * total > 7 * n
    ELSE LET exact == (7 * n) \div 10
             rounds_down == 2 * n > 5 * 2^FloorLog2(exact)
         IN  IF rounds_down THEN total >= exact ELSE total > exact

\* should_summarize as a bug would have it: the estimate with the overhead
should_summarize_with_overhead(messages, limit) ==
    Returned(GreaterThanProduct(estimate_messages_tokens(messages), limit))

\* should_summarize(messages) of a manager whose max_tokens is limit
should_summarize(messages, limit) ==
    LET total_tokens == estimate_total_tokens(messages)
    IN  IF total_tokens = AttributeError THEN Raised
        ELSE Returned(GreaterThanProduct(total_tokens, limit))

\* max(a, b)
max(a, b) == IF a >= b THEN a ELSE b

\* set_max_tokens as a bug would have it: no floor
set_max_tokens_unclamped(n) == n

\* set_max_tokens(n): the new max_tokens
set_max_tokens(n) == max(1024, n)

\* set_reserve_tokens(n): the new reserve_tokens
set_reserve_tokens(n) == max(256, n)

-----------------------------------------------------------------------------
(* The inputs of the exploration.                                          *)

RECURSIVE Repeat(_, _)
\* s * n
Repeat(s, n) == IF n <= 0 THEN <<>> ELSE s \o Repeat(s, n - 1)

\* " be brief ": 2 tokens once stripped
BeBrief == <<" ","b","e"," ","b","r","i","e","f"," ">>

\* "hi": 1 token
Hi == <<"h","i">>

\* "How.a.a. ... .a": 31 sentences, 61 tokens
HowSentences == <<"H","o","w">> \o Repeat(<<".","a">>, 30)

\* "why??? ... ?": 58 tokens, one sentence and an empty one
WhyMarks == <<"w","h","y">> \o Repeat(<<"?">>, 57)

\* ",,, ... ,": 52 tokens and no marker of importance
Commas == Repeat(<<",">>, 52)

\* the dicts the caller appends: role and content, two of them with the
\* ts the user interface adds, one with a content that is no str
MessagePool ==
    { [role |-> "system", content |-> PyStr(BeBrief)],
      [role |-> "user", content |-> PyStr(Hi)],
      [role |-> "user", content |-> PyStr(HowSentences), ts |-> "12:00"],
      [role |-> "user", content |-> PyStr(WhyMarks), ts |-> "12:00"],
      [role |-> "assistant", content |-> PyStr(Commas)],
      [role |-> "user", content |-> PyInt(7)] }

\* ",,,,,,,,,": 9 tokens
Nine == Repeat(<<",">>, 9)

\* the dicts of the histories whose tokens are asked for: contents that
\* are str, a content that is an int, a list or None, and no content
UsagePool ==
    { [role |-> "system", content |-> PyStr(BeBrief)],
      [role |-> "user", content |-> PyStr(Hi)],
      [role |-> "user", content |-> PyStr(HowSentences)],
      [role |-> "assistant", content |-> PyStr(Nine)],
      [role |-> "user", content |-> PyInt(7)],
      [role |-> "user", content |-> PyList(<<1, 2>>)],
      [role |-> "user", content |-> PyNone],
      [role |-> "assistant"] }

\* the (max_tokens, reserve_tokens) of the managers asked: 70% of 100 is
\* the float 70.0, 70% of 90 the float 62.99999999999999; the third has a
\* budget of one token
UsageArgs == { <<4096, 512>>, <<100, 0>>, <<90, 0>>, <<1024, 1023>> }

\* "1.,,, ... ,": a numbered list of 58 tokens
Steps == <<"1", ".">> \o Repeat(<<",">>, 56)

\* the dicts of the histories that try the rescue: questions, a numbered
\* answer, a routine answer, and a question in a message of another role
RescuePool ==
    { [role |-> "user", content |-> PyStr(Hi)],
      [role |-> "user", content |-> PyStr(HowSentences)],
      [role |-> "assistant", content |-> PyStr(Steps)],
      [role |-> "assistant", content |-> PyStr(Commas)],
      [role |-> "tool", content |-> PyStr(WhyMarks)] }

\* the (max_tokens, reserve_tokens) the managers of Spec are made with:
\* the defaults, a budget of 54 tokens and a negative budget
ManagerArgs == { <<4096, 512>>, <<1024, 970>>, <<1024, 1030>> }

\* the (max_tokens, reserve_tokens) the managers of SpecConfig are made
\* with, and the arguments their setters are called with
ConfigArgs == { <<4096, 512>>, <<100, 0>> }

MaxInputs == {-1, 0, 4096} \cup (1020..1030)

ReserveInputs == {-1, 0, 5000} \cup (250..262)

-----------------------------------------------------------------------------
(* The state machine: one manager, one caller holding one history.  call   *)
(* is where the caller stands: idle, or just back from truncate_messages   *)
(* with the outcome of that call.                                          *)

Idle == [op |-> "idle"]

\* the value None of an Optional[str] field
None == "None"

\* the threads that call the TokenTracker: the one of the user interface
\* and the reader thread of the FoundryCLI
Threads == {"ui", "reader"}

\* TokenTracker(): no metrics, no pending request, a free lock, no
\* callback; no thread is in a call
NewTracker ==
    /\ _chat_tokens = <<>>
    /\ _pending_requests = <<>>
    /\ _lock = None
    /\ _callbacks = <<>>
    /\ thread = [t \in Threads |-> <<>>]

\* FoundryCLI(): no process, no reader thread, no session, and the
\* TokenTracker of the module
NewCli ==
    /\ _proc = None
    /\ _reader_thread = None
    /\ _chat_sessions = <<>>
    /\ _current_chat_id = None
    /\ _buffer = <<>>
    /\ pending = <<>>
    /\ sent = 0
    /\ main = Idle
    /\ _context_cache = <<>>
    /\ reader = Idle
    /\ _current_request_id = None
    /\ NewTracker

\* ContextManager(mx, rs), before the caller has any message
Constructed(mx, rs) ==
    /\ max_tokens = mx
    /\ reserve_tokens = rs
    /\ available_tokens = mx - rs
    /\ history = <<>>
    /\ call = Idle
    /\ NewCli

Init == \E a \in ManagerArgs : Constructed(a[1], a[2])

InitConfig == \E a \in ConfigArgs : Constructed(a[1], a[2])

SetMaxTokens(n) ==
    /\ max_tokens' = set_max_tokens(n)
    /\ available_tokens' = max_tokens' - reserve_tokens
    /\ call' = [op |-> "set_max_tokens", arg |-> n]
    /\ UNCHANGED <<reserve_tokens, history, cli, tracker>>

\* SetReserveTokens as a bug would have it: available_tokens not recomputed
SetReserveTokens_stale(n) ==
    /\ reserve_tokens' = set_reserve_tokens(n)
    /\ call' = [op |-> "set_reserve_tokens", arg |-> n]
    /\ UNCHANGED <<max_tokens, available_tokens, history, cli, tracker>>

SetReserveTokens(n) ==
    /\ reserve_tokens' = set_reserve_tokens(n)
    /\ available_tokens' = max_tokens - reserve_tokens'
    /\ call' = [op |-> "set_reserve_tokens", arg |-> n]
    /\ UNCHANGED <<max_tokens, history, cli, tracker>>

\* the dict objects of a list the caller holds, numbered as its own
Numbered(list) == [i \in 1..Len(list) |-> [list[i] EXCEPT !.id = i]]

\* the caller appends a new dict to its history
AppendMessage(m) ==
    /\ Len(history) < MaxLen
    /\ LET n == Len(history) + 1
           fields == DOMAIN m \cup {"id"}
       IN  history' = Append(history,
               [k \in fields |-> IF k = "id" THEN n ELSE m[k]])
    /\ call' = Idle
    /\ UNCHANGED <<max_tokens, reserve_tokens, available_tokens, cli, tracker>>

\* the caller passes the list given to truncate_messages and keeps the
\* list as its history; again tells a call on the list the previous call
\* returned from a call on the history the caller built
Truncate(given, again) ==
    /\ LET r == truncate_messages(given, available_tokens)
       IN  /\ history' = r.messages
           /\ call' = [op |-> "truncate_messages", again |-> again,
                       exc |-> r.out.exc, ret |-> r.out.ret]
    /\ UNCHANGED <<max_tokens, reserve_tokens, available_tokens, cli, tracker>>

\* truncated = truncate_messages(history)
TruncateMessages ==
    /\ call.op = "idle"
    /\ Truncate(history, FALSE)

\* truncate_messages(truncated), on the list the call before returned
TruncateAgain ==
    /\ call.op = "truncate_messages"
    /\ ~call.exc
    /\ Truncate(Numbered(call.ret), TRUE)

\* a caller that trims its history before each turn
Next ==
    \/ \E m \in MessagePool : AppendMessage(m)
    \/ TruncateMessages
    \/ TruncateAgain

Spec == Init /\ [][Next]_vars

\* a manager with a budget of 54 tokens
InitRescue == Constructed(1024, 970)

\* a caller whose history has important messages of every kind
NextRescue ==
    \/ \E m \in RescuePool : AppendMessage(m)
    \/ TruncateMessages

SpecRescue == InitRescue /\ [][NextRescue]_vars

InitUsage == \E a \in UsageArgs : Constructed(a[1], a[2])

\* the caller appends a new dict to a history it will ask about
AppendContent(m) ==
    /\ Len(history) < MaxUsageLen
    /\ LET n == Len(history) + 1
           fields == DOMAIN m \cup {"id"}
       IN  history' = Append(history,
               [k \in fields |-> IF k = "id" THEN n ELSE m[k]])
    /\ call' = Idle
    /\ UNCHANGED <<max_tokens, reserve_tokens, available_tokens, cli, tracker>>

\* manager.should_summarize(history)
ShouldSummarize ==
    /\ call.op = "idle"
    /\ LET r == should_summarize(history, max_tokens)
       IN  call' = [op |-> "should_summarize", exc |-> r.exc, ret |-> r.ret]
    /\ UNCHANGED <<max_tokens, reserve_tokens, available_tokens, history,
                 cli, tracker>>

\* manager.estimate_total_tokens(history)
EstimateTotalTokens ==
    /\ call.op = "idle"
    /\ LET total == estimate_total_tokens(history)
       IN  call' = IF total = AttributeError
                   THEN [op |-> "estimate_total_tokens", exc |-> TRUE,
                         ret |-> 0]
                   ELSE [op |-> "estimate_total_tokens", exc |-> FALSE,
                         ret |-> total]
    /\ UNCHANGED <<max_tokens, reserve_tokens, available_tokens, history,
                 cli, tracker>>

\* estimate_messages_tokens(history)
EstimateMessagesTokens ==
    /\ call.op = "idle"
    /\ call' = [op |-> "estimate_messages_tokens", exc |-> FALSE,
                ret |-> estimate_messages_tokens(history)]
    /\ UNCHANGED <<max_tokens, reserve_tokens, available_tokens, history,
                 cli, tracker>>

\* a caller that asks about the tokens of its history and trims it
NextUsage ==
    \/ \E m \in UsagePool : AppendContent(m)
    \/ ShouldSummarize
    \/ EstimateTotalTokens
    \/ EstimateMessagesTokens
    \/ TruncateMessages

SpecUsage == InitUsage /\ [][NextUsage]_vars

\* the characters of the texts: a letter, the underscore, a punctuation
\* character and two kinds of white space
TextChars == {"a", "_", ",", " ", "\n"}

\* every text of at most MaxTextLen characters
Texts == UNION {[1..k -> TextChars] : k \in 0..MaxTextLen}

\* a caller that holds a text
InitTokens ==
    /\ max_tokens = 4096
    /\ reserve_tokens = 512
    /\ available_tokens = 4096 - 512
    /\ history = <<>>
    /\ \E t \in Texts : call = [op |-> "text", arg |-> PyStr(t)]
    /\ NewCli

\* estimate_tokens(text)
EstimateTokens ==
    /\ call.op = "text"
    /\ LET n == estimate_tokens(call.arg)
       IN  call' = [op |-> "estimate_tokens", arg |-> call.arg,
                    exc |-> n = AttributeError,
                    ret |-> IF n = AttributeError THEN 0 ELSE n]
    /\ UNCHANGED <<max_tokens, reserve_tokens, available_tokens, history,
                 cli, tracker>>

NextTokens == EstimateTokens

SpecTokens == InitTokens /\ [][NextTokens]_vars

\* the contents _truncate_content is given: every short string of letters,
\* periods and spaces, and the long contents of the histories
ContentChars == {"a", ".", " "}

Contents ==
    UNION {[1..k -> ContentChars] : k \in 0..4}
        \cup {Hi, HowSentences, WhyMarks, Commas, Steps}

\* the budgets _truncate_content is given (max_tokens > 0)
Budgets == {1, 2, 3, 53, 60}

\* a caller that holds a content and a budget
InitTruncate ==
    /\ max_tokens = 4096
    /\ reserve_tokens = 512
    /\ available_tokens = 4096 - 512
    /\ history = <<>>
    /\ \E c \in Contents, b \in Budgets :
           call = [op |-> "content", content |-> c, max_tokens |-> b]
    /\ NewCli

\* _truncate_content(content, max_tokens)
TruncateContent ==
    /\ call.op = "content"
    /\ call' = [op |-> "_truncate_content", content |-> call.content,
                max_tokens |-> call.max_tokens,
                ret |-> _truncate_content(call.content, call.max_tokens)]
    /\ UNCHANGED <<max_tokens, reserve_tokens, available_tokens, history,
                 cli, tracker>>

NextTruncate == TruncateContent

SpecTruncate == InitTruncate /\ [][NextTruncate]_vars

\* the texts of summarize_context, _extract_topic and _extract_key_info
Header ==
    <<"P","r","e","v","i","o","u","s"," ","c","o","n","v","e","r","s","a",
      "t","i","o","n"," ","s","u","m","m","a","r","y",":","\n">>

Dash ==
    <<"-"," ">>

UserAskedAbout ==
    <<"U","s","e","r"," ","a","s","k","e","d"," ","a","b","o","u","t"," ">>

AssistantExplained ==
    <<"A","s","s","i","s","t","a","n","t"," ","e","x","p","l","a","i","n",
      "e","d"," ">>

Involved ==
    <<"P","r","e","v","i","o","u","s"," ","c","o","n","v","e","r","s","a",
      "t","i","o","n"," ","i","n","v","o","l","v","e","d"," ">>

Exchanges ==
    <<" ","e","x","c","h","a","n","g","e","s"," ","b","e","t","w","e","e",
      "n"," ","u","s","e","r"," ","a","n","d"," ","a","s","s","i","s","t",
      "a","n","t",".">>

GeneralTopic ==
    <<"g","e","n","e","r","a","l"," ","t","o","p","i","c">>

CodeExamples ==
    <<"c","o","d","e"," ","e","x","a","m","p","l","e","s">>

StepByStep ==
    <<"s","t","e","p","-","b","y","-","s","t","e","p"," ","i","n","f","o",
      "r","m","a","t","i","o","n">>

DetailedInformation ==
    <<"d","e","t","a","i","l","e","d"," ","i","n","f","o","r","m","a","t",
      "i","o","n">>

Information ==
    <<"i","n","f","o","r","m","a","t","i","o","n">>

\* question_patterns: each pattern is one of these texts, then the
\* shortest run of characters other than a newline, then '?' or '.'
QuestionPatterns ==
    << { <<"h","o","w"," ","d","o"," ">>,
         <<"h","o","w"," ","c","a","n"," ">>,
         <<"h","o","w"," ","t","o"," ">> },
       { <<"w","h","a","t"," ","i","s"," ">>,
         <<"w","h","a","t"," ","a","r","e"," ">> },
       { <<"w","h","y"," ","d","o","e","s"," ">>,
         <<"w","h","y"," ","i","s"," ">>,
         <<"w","h","y"," ","a","r","e"," ">> },
       { <<"e","x","p","l","a","i","n"," ">> },
       { <<"t","e","l","l"," ","m","e"," ","a","b","o","u","t"," ">> } >>

\* [\?\.]
Terminators == {"?", "."}

\* the pattern that starts with the text p matches s from index i on
MatchAt(s, p, i) ==
    /\ i + Len(p) - 1 <= Len(s)
    /\ SubSeq(s, i, i + Len(p) - 1) = p
    /\ \E j \in (i + Len(p))..Len(s) :
           /\ s[j] \in Terminators
           /\ \A n \in (i + Len(p))..(j - 1) :
                  s[n] \notin Terminators /\ s[n] # "\n"

\* re.search(pattern, s): no match, or the group (.*?) of the leftmost one
re_search(prefixes, s) ==
    LET starts == {i \in 1..Len(s) : \E p \in prefixes : MatchAt(s, p, i)}
    IN  IF starts = {} THEN <<>>
        ELSE LET i == CHOOSE i \in starts : \A n \in starts : i <= n
                 p == CHOOSE p \in prefixes : MatchAt(s, p, i)
                 from == i + Len(p)
                 j == CHOOSE j \in from..Len(s) :
                          /\ s[j] \in Terminators
                          /\ \A n \in from..(j - 1) : s[n] \notin Terminators
             IN  <<SubSeq(s, from, j - 1)>>

IsLetter(c) ==
    \E k \in 1..26 : c = LowerLetters[k] \/ c = UpperLetters[k]

\* re.findall(r'\b[a-zA-Z]{3,}\b', s): the index pairs of the maximal
\* runs of word characters that are 3 letters or more
WordRuns(s) ==
    {r \in (1..Len(s)) \X (1..Len(s)) :
        /\ r[1] + 2 <= r[2]
        /\ \A n \in r[1]..r[2] : IsLetter(s[n])
        /\ r[1] = 1 \/ ~IsWord(s[r[1] - 1])
        /\ r[2] = Len(s) \/ ~IsWord(s[r[2] + 1])}

RECURSIVE JoinWords(_, _, _)
\* ' '.join(words[:n]) of the words of s that start at index from or later
JoinWords(s, from, n) ==
    LET runs == {r \in WordRuns(s) : r[1] >= from}
    IN  IF n = 0 \/ runs = {} THEN <<>>
        ELSE LET r == CHOOSE r \in runs : \A q \in runs : r[1] <= q[1]
                 rest == JoinWords(s, r[2] + 1, n - 1)
             IN  SubSeq(s, r[1], r[2]) \o
                 (IF rest = <<>> THEN <<>> ELSE <<" ">> \o rest)

RECURSIVE TopicFrom(_, _)
\* the loop of _extract_topic over question_patterns, from pattern k on
TopicFrom(content, k) ==
    IF k > Len(QuestionPatterns)
    THEN IF WordRuns(content) # {} THEN JoinWords(content, 1, 3)
         ELSE GeneralTopic
    ELSE LET match == re_search(QuestionPatterns[k], lower(content))
         IN  IF match # <<>> /\ Len(strip(match[1])) < 50
             THEN strip(match[1])
             ELSE TopicFrom(content, k + 1)

\* _extract_topic(content) on a str
_extract_topic(content) == TopicFrom(content, 1)

\* _extract_key_info(content) on a str
_extract_key_info(content) ==
    IF Contains(<<Backtick, Backtick, Backtick>>, content) THEN CodeExamples
    ELSE IF \E marker \in {<<"1",".">>, <<"2",".">>, <<"-"," ">>, <<"*"," ">>} :
                Contains(marker, content)
         THEN StepByStep
    ELSE IF Len(content) > 500 THEN DetailedInformation
    ELSE Information

\* summarize_context as a bug would have it: a turn closes only when it
\* holds 2 messages
TurnComplete_pairs(current_turn, role) == Len(current_turn) >= 2

\* len(current_turn) >= 2 or role == 'assistant'
TurnComplete(current_turn, role) ==
    Len(current_turn) >= 2 \/ role = "assistant"

RECURSIVE GroupTurns(_, _, _, _)
\* the loop of summarize_context over messages, from message k on
GroupTurns(messages, k, turns, current_turn) ==
    IF k > Len(messages) THEN turns
    ELSE LET message == messages[k]
             role == Get(message, "role", "")
         IN  IF role = "system"
             THEN GroupTurns(messages, k + 1, turns, current_turn)
             ELSE LET turn == Append(current_turn, message)
                  IN  IF TurnComplete(turn, role)
                      THEN GroupTurns(messages, k + 1,
                                      Append(turns, turn), <<>>)
                      ELSE GroupTurns(messages, k + 1, turns, turn)

\* next((m for m in turn if m.get('role') == role), None): the message in
\* a list of one, or the empty list for None
next(turn, role) ==
    LET found == {i \in 1..Len(turn) : Get(turn[i], "role", "") = role}
    IN  IF found = {} THEN <<>>
        ELSE <<turn[CHOOSE i \in found : \A n \in found : i <= n]>>

\* the points summarize_context appends for one turn (contents are str)
TurnPoints(turn) ==
    LET user_msg == next(turn, "user")
        assistant_msg == next(turn, "assistant")
        user_content ==
            IF user_msg = <<>> THEN <<>>
            ELSE Get(user_msg[1], "content", EmptyStr).val
        assistant_content ==
            IF assistant_msg = <<>> THEN <<>>
            ELSE Get(assistant_msg[1], "content", EmptyStr).val
        topic == _extract_topic(user_content)
    IN  (IF /\ user_msg # <<>>
            /\ Len(user_content) > 50
            /\ topic # <<>>
         THEN <<UserAskedAbout \o topic>>
         ELSE <<>>)
        \o
        (IF /\ assistant_msg # <<>>
            /\ Len(assistant_content) > 100
         THEN <<AssistantExplained \o _extract_key_info(assistant_content)>>
         ELSE <<>>)

RECURSIVE SummaryPoints(_, _)
\* summary_points after the turns from turn k on
SummaryPoints(turns, k) ==
    IF k > Len(turns) THEN <<>>
    ELSE TurnPoints(turns[k]) \o SummaryPoints(turns, k + 1)

\* summarize_context as a bug would have it: every point is written
FirstPoints_all(summary_points) == summary_points

\* summary_points[:5]
FirstPoints(summary_points) ==
    IF Len(summary_points) <= 5 THEN summary_points
    ELSE SubSeq(summary_points, 1, 5)

RECURSIVE JoinLines(_, _)
\* "\n".join(f"- {point}" for point in points[k:])
JoinLines(points, k) ==
    IF k > Len(points) THEN <<>>
    ELSE IF k = Len(points) THEN Dash \o points[k]
    ELSE Dash \o points[k] \o <<"\n">> \o JoinLines(points, k + 1)

\* summarize_context(messages): the string returned, with the turns and
\* the points it was made from
summarize_context(messages) ==
    LET turns == IF messages = <<>> THEN <<>>
                 ELSE GroupTurns(messages, 1, <<>>, <<>>)
        summary_points == SummaryPoints(turns, 1)
    IN  [turns |-> turns,
         summary_points |-> summary_points,
         ret |-> IF turns = <<>> THEN <<>>
                 ELSE IF summary_points # <<>>
                      THEN Header \o JoinLines(FirstPoints(summary_points), 1)
                      ELSE Involved \o IntStr(Len(turns)) \o Exchanges]

\* "How to sort a list?" and 32 spaces: 51 characters, topic "sort a list"
AskSort ==
    <<"H","o","w"," ","t","o"," ","s","o","r","t"," ","a"," ","l","i","s",
      "t","?">> \o Repeat(<<" ">>, 32)

\* "1.,,, ... ,": 101 characters
LongSteps == <<"1", ".">> \o Repeat(<<",">>, 99)

\* the dicts of the histories that are summarized
SummaryPool ==
    { [role |-> "system", content |-> PyStr(BeBrief)],
      [role |-> "user", content |-> PyStr(Hi)],
      [role |-> "user", content |-> PyStr(AskSort)],
      [role |-> "assistant", content |-> PyStr(LongSteps)] }

InitSummary == Constructed(4096, 512)

\* the caller appends a new dict to a history it will summarize
AppendTurn(m) ==
    /\ Len(history) < MaxSummaryLen
    /\ LET n == Len(history) + 1
           fields == DOMAIN m \cup {"id"}
       IN  history' = Append(history,
               [k \in fields |-> IF k = "id" THEN n ELSE m[k]])
    /\ call' = Idle
    /\ UNCHANGED <<max_tokens, reserve_tokens, available_tokens, cli, tracker>>

\* manager.summarize_context(history)
SummarizeContext ==
    /\ call.op = "idle"
    /\ LET r == summarize_context(history)
       IN  call' = [op |-> "summarize_context", turns |-> r.turns,
                    summary_points |-> r.summary_points, ret |-> r.ret]
    /\ UNCHANGED <<max_tokens, reserve_tokens, available_tokens, history,
                 cli, tracker>>

NextSummary ==
    \/ \E m \in SummaryPool : AppendTurn(m)
    \/ SummarizeContext

SpecSummary == InitSummary /\ [][NextSummary]_vars

-----------------------------------------------------------------------------
(* TokenTracker: each method that takes the lock is three steps of the     *)
(* calling thread, the call, the acquisition of the lock and the body,     *)
(* which ends with the release; complete_request notifies the callbacks    *)
(* one by one before it releases the lock.                                 *)

\* most start_request calls
MaxRequests == 1

\* most registered callbacks
MaxCallbacks == 1

\* the chat whose tokens the threads track
TrackedChats == {"chat_a"}

\* the texts of the requests and of the replies
UserInputs == {Hi}

AssistantOutputs == {<<"o","k">>}

\* what a registered callback does when it is notified: it returns, it
\* raises, or it calls the method of the tracker of that name
Callbacks ==
    {"returns", "raises", "get_chat_total_tokens", "get_chat_metrics",
     "register_callback"}

\* the methods that read the metrics of a chat under the lock
Readers == {"get_chat_total_tokens", "get_chat_metrics"}

\* f"{chat_id}_{threading.get_ident()}_{id(user_input)}", with the str
\* object standing for its id
request_id(chat_id, ident, user_input) == <<chat_id, ident, user_input>>

\* the request ids a thread may complete
RequestIds ==
    {request_id(c, t, u) : c \in TrackedChats, t \in Threads,
                           u \in UserInputs}

RECURSIVE SumInputOutput(_)
\* sum(m.input_tokens + m.output_tokens for m in metrics)
SumInputOutput(metrics) ==
    IF metrics = <<>> THEN 0
    ELSE Head(metrics).input_tokens + Head(metrics).output_tokens
         + SumInputOutput(Tail(metrics))

\* metrics[-10:]
LastTen(metrics) ==
    IF Len(metrics) <= 10 THEN metrics
    ELSE SubSeq(metrics, Len(metrics) - 9, Len(metrics))

\* _estimate_input_tokens(user_input, chat_id) when the metrics of the
\* chats are chat_tokens; int(x * 0.1) is x \div 10 for the ints of a
\* context of at most 2048 tokens
_estimate_input_tokens(user_input, chat_id, chat_tokens) ==
    LET base_tokens == StrTokens(user_input)
        system_overhead == 100
        history_tokens ==
            IF chat_id \in DOMAIN chat_tokens
            THEN SumInputOutput(LastTen(chat_tokens[chat_id]))
            ELSE 0
        context_tokens ==
            IF history_tokens < 2048 THEN history_tokens ELSE 2048
    IN  base_tokens + system_overhead + (context_tokens \div 10)

\* _estimate_output_tokens(assistant_output)
_estimate_output_tokens(assistant_output) == StrTokens(assistant_output)

\* _estimate_reasoning_tokens(assistant_output)
_estimate_reasoning_tokens(assistant_output) ==
    LET output_tokens == StrTokens(assistant_output)
    IN  IF output_tokens < 50 THEN output_tokens \div 10
        ELSE IF output_tokens < 200 THEN output_tokens \div 4
        ELSE (output_tokens * 4) \div 10

\* TokenMetrics(...) after __post_init__
TokenMetrics(input_tokens, output_tokens, reasoning_tokens, total_tokens, model_name) ==
    [input_tokens |-> input_tokens, output_tokens |-> output_tokens,
     reasoning_tokens |-> reasoning_tokens,
     total_tokens |-> IF total_tokens = 0
                      THEN input_tokens + output_tokens + reasoning_tokens
                      ELSE total_tokens,
     model_name |-> model_name]

\* the metrics complete_request makes of the request req and of the
\* reply; no line of the backend has given actual counts
RequestMetrics(req, assistant_output) ==
    TokenMetrics(req.input_tokens,
                 _estimate_output_tokens(assistant_output),
                 _estimate_reasoning_tokens(assistant_output),
                 req.input_tokens
                     + _estimate_output_tokens(assistant_output)
                     + _estimate_reasoning_tokens(assistant_output),
                 req.model_name)

\* self._pending_requests[request_id] = req
WithRequest(requests, id, req) ==
    [r \in DOMAIN requests \cup {id} |->
        IF r = id THEN req ELSE requests[r]]

\* self._pending_requests after pop(request_id, None)
WithoutRequest(requests, id) ==
    [r \in DOMAIN requests \ {id} |-> requests[r]]

\* self._chat_tokens[chat_id].append(metrics), on a new list when the
\* chat has none
WithMetrics(chat_tokens, chat_id, metrics) ==
    [c \in DOMAIN chat_tokens \cup {chat_id} |->
        IF c = chat_id
        THEN IF c \in DOMAIN chat_tokens
             THEN Append(chat_tokens[c], metrics)
             ELSE <<metrics>>
        ELSE chat_tokens[c]]

\* the requests that were started: the pending ones and the completed
Started ==
    Cardinality(DOMAIN _pending_requests)
    + Cardinality({<<c, i>> \in (DOMAIN _chat_tokens) \X (1..MaxRequests + 2) :
                      i <= Len(_chat_tokens[c])})

\* the thread t is in the call of op, at the place at
At(t, op, at) ==
    /\ thread[t] # <<>>
    /\ Head(thread[t]).op = op
    /\ Head(thread[t]).at = at

\* the calls of a thread once the innermost one has returned: when a
\* callback had made it, the callback returns as well and
\* complete_request goes on to the next callback
AfterReturn(stack) ==
    LET rest == Tail(stack)
    IN  IF rest # <<>> /\ Head(rest).at = "callback"
        THEN <<[Head(rest) EXCEPT !.at = "notify", !.k = @ + 1]>>
             \o Tail(rest)
        ELSE rest

\* a TokenTracker and two threads that are in no call
InitTracker == Constructed(4096, 512)

\* with self._lock: the thread goes on when no thread holds the lock,
\* the lock of threading.Lock() having no owner that could take it twice
Acquire(t) ==
    /\ thread[t] # <<>>
    /\ Head(thread[t]).at = "acquire"
    /\ _lock = None
    /\ _lock' = t
    /\ thread' = [thread EXCEPT ![t] =
                     <<[Head(@) EXCEPT !.at = "locked"]>> \o Tail(@)]
    /\ UNCHANGED <<_chat_tokens, _pending_requests, _callbacks>>
    /\ UNCHANGED <<max_tokens, reserve_tokens, available_tokens, history,
                   call, cli>>

\* a thread calls register_callback(callback)
RegisterCallback(t, callback) ==
    /\ thread[t] = <<>>
    /\ Len(_callbacks) < MaxCallbacks
    /\ thread' = [thread EXCEPT ![t] =
                     <<[op |-> "register_callback", at |-> "acquire",
                        callback |-> callback]>>]
    /\ UNCHANGED <<_chat_tokens, _pending_requests, _lock, _callbacks>>
    /\ UNCHANGED <<max_tokens, reserve_tokens, available_tokens, history,
                   call, cli>>

\* register_callback under the lock
RegisterCallbackLocked(t) ==
    /\ At(t, "register_callback", "locked")
    /\ LET callback == Head(thread[t]).callback
       IN  _callbacks' =
               IF \E i \in 1..Len(_callbacks) : _callbacks[i] = callback
               THEN _callbacks
               ELSE Append(_callbacks, callback)
    /\ _lock' = None
    /\ thread' = [thread EXCEPT ![t] = AfterReturn(@)]
    /\ UNCHANGED <<_chat_tokens, _pending_requests>>
    /\ UNCHANGED <<max_tokens, reserve_tokens, available_tokens, history,
                   call, cli>>

\* a thread calls start_request(chat_id, user_input), which calls
\* _estimate_input_tokens
StartRequest(t, chat_id, user_input) ==
    /\ thread[t] = <<>>
    /\ Started < MaxRequests
    /\ thread' = [thread EXCEPT ![t] =
                     <<[op |-> "_estimate_input_tokens", at |-> "acquire",
                        chat_id |-> chat_id, user_input |-> user_input],
                       [op |-> "start_request", at |-> "estimate",
                        chat_id |-> chat_id, user_input |-> user_input]>>]
    /\ UNCHANGED <<_chat_tokens, _pending_requests, _lock, _callbacks>>
    /\ UNCHANGED <<max_tokens, reserve_tokens, available_tokens, history,
                   call, cli>>

\* _estimate_input_tokens under the lock, and its return to
\* start_request, which takes the lock next
EstimateInputTokensLocked(t) ==
    /\ At(t, "_estimate_input_tokens", "locked")
    /\ _lock' = None
    /\ LET f == Head(thread[t])
       IN  thread' = [thread EXCEPT ![t] =
               <<[op |-> "start_request", at |-> "acquire",
                  chat_id |-> f.chat_id, user_input |-> f.user_input,
                  input_tokens |->
                      _estimate_input_tokens(f.user_input, f.chat_id,
                                             _chat_tokens)]>>
               \o Tail(Tail(@))]
    /\ UNCHANGED <<_chat_tokens, _pending_requests, _callbacks>>
    /\ UNCHANGED <<max_tokens, reserve_tokens, available_tokens, history,
                   call, cli>>

\* start_request under the lock: the request is pending
StartRequestLocked(t) ==
    /\ At(t, "start_request", "locked")
    /\ LET f == Head(thread[t])
       IN  _pending_requests' =
               WithRequest(_pending_requests,
                           request_id(f.chat_id, t, f.user_input),
                           [chat_id |-> f.chat_id,
                            user_input |-> f.user_input,
                            model_name |-> None,
                            input_tokens |-> f.input_tokens])
    /\ _lock' = None
    /\ thread' = [thread EXCEPT ![t] = AfterReturn(@)]
    /\ UNCHANGED <<_chat_tokens, _callbacks>>
    /\ UNCHANGED <<max_tokens, reserve_tokens, available_tokens, history,
                   call, cli>>

\* a thread calls complete_request(request_id, assistant_output)
CompleteRequest(t, id, assistant_output) ==
    /\ thread[t] = <<>>
    /\ thread' = [thread EXCEPT ![t] =
                     <<[op |-> "complete_request", at |-> "acquire",
                        request_id |-> id,
                        assistant_output |-> assistant_output]>>]
    /\ UNCHANGED <<_chat_tokens, _pending_requests, _lock, _callbacks>>
    /\ UNCHANGED <<max_tokens, reserve_tokens, available_tokens, history,
                   call, cli>>

\* complete_request under the lock, up to the loop over the callbacks:
\* without a pending request of that id it returns None, otherwise the
\* metrics are stored and the lock is kept for the notifications
CompleteRequestLocked(t) ==
    /\ At(t, "complete_request", "locked")
    /\ LET f == Head(thread[t])
       IN  IF f.request_id \notin DOMAIN _pending_requests
           THEN /\ _lock' = None
                /\ thread' = [thread EXCEPT ![t] = AfterReturn(@)]
                /\ UNCHANGED <<_chat_tokens, _pending_requests>>
           ELSE \E req \in {_pending_requests[f.request_id]} :
                /\ _pending_requests' =
                       WithoutRequest(_pending_requests, f.request_id)
                /\ _chat_tokens' =
                       WithMetrics(_chat_tokens, req.chat_id,
                           RequestMetrics(req, f.assistant_output))
                /\ _lock' = _lock
                /\ thread' = [thread EXCEPT ![t] =
                       <<[op |-> "complete_request", at |-> "notify",
                          chat_id |-> req.chat_id, k |-> 1]>> \o Tail(@)]
    /\ UNCHANGED _callbacks
    /\ UNCHANGED <<max_tokens, reserve_tokens, available_tokens, history,
                   call, cli>>

\* complete_request in the loop "for callback in self._callbacks", the
\* lock held: the k-th callback is called; one that returns or raises
\* leaves the loop to go on, one that calls a method of the tracker puts
\* the thread in that call; past the last callback the lock is released
\* and the metrics are returned
Notify(t) ==
    /\ At(t, "complete_request", "notify")
    /\ LET f == Head(thread[t])
       IN  IF f.k > Len(_callbacks)
           THEN /\ _lock' = None
                /\ thread' = [thread EXCEPT ![t] = AfterReturn(@)]
           ELSE /\ _lock' = _lock
                /\ \E callback \in {_callbacks[f.k]} :
                       thread' = [thread EXCEPT ![t] =
                           IF callback \in {"returns", "raises"}
                           THEN <<[f EXCEPT !.k = @ + 1]>> \o Tail(@)
                           ELSE IF callback \in Readers
                           THEN <<[op |-> callback, at |-> "acquire",
                                   chat_id |-> f.chat_id],
                                  [f EXCEPT !.at = "callback"]>>
                                \o Tail(@)
                           ELSE <<[op |-> "register_callback",
                                   at |-> "acquire",
                                   callback |-> callback],
                                  [f EXCEPT !.at = "callback"]>>
                                \o Tail(@)]
    /\ UNCHANGED <<_chat_tokens, _pending_requests, _callbacks>>
    /\ UNCHANGED <<max_tokens, reserve_tokens, available_tokens, history,
                   call, cli>>

\* a thread calls get_chat_total_tokens(chat_id) or
\* get_chat_metrics(chat_id)
Read(t, op, chat_id) ==
    /\ thread[t] = <<>>
    /\ thread' = [thread EXCEPT ![t] =
                     <<[op |-> op, at |-> "acquire", chat_id |-> chat_id]>>]
    /\ UNCHANGED <<_chat_tokens, _pending_requests, _lock, _callbacks>>
    /\ UNCHANGED <<max_tokens, reserve_tokens, available_tokens, history,
                   call, cli>>

\* get_chat_total_tokens or get_chat_metrics under the lock: the value is
\* read, the lock released
ReadLocked(t) ==
    /\ thread[t] # <<>>
    /\ Head(thread[t]).op \in Readers
    /\ Head(thread[t]).at = "locked"
    /\ _lock' = None
    /\ thread' = [thread EXCEPT ![t] = AfterReturn(@)]
    /\ UNCHANGED <<_chat_tokens, _pending_requests, _callbacks>>
    /\ UNCHANGED <<max_tokens, reserve_tokens, available_tokens, history,
                   call, cli>>

\* the steps of a call that holds the lock
Locked(t) ==
    \/ RegisterCallbackLocked(t)
    \/ EstimateInputTokensLocked(t)
    \/ StartRequestLocked(t)
    \/ CompleteRequestLocked(t)
    \/ Notify(t)
    \/ ReadLocked(t)

\* two threads that call the tracker
NextTracker ==
    \/ \E t \in Threads : \E callback \in Callbacks :
           RegisterCallback(t, callback)
    \/ \E t \in Threads : \E c \in TrackedChats : \E u \in UserInputs :
           StartRequest(t, c, u)
    \/ \E t \in Threads : \E id \in RequestIds :
           \E o \in AssistantOutputs : CompleteRequest(t, id, o)
    \/ \E t \in Threads : \E op \in Readers : \E c \in TrackedChats :
           Read(t, op, c)
    \/ \E t \in Threads : Acquire(t)
    \/ \E t \in Threads : Locked(t)

\* a thread that can go on does go on, and a thread that waits for the
\* lock gets it when the lock is free again and again
SpecTracker ==
    /\ InitTracker
    /\ [][NextTracker]_vars
    /\ \A t \in Threads : WF_vars(Locked(t)) /\ SF_vars(Acquire(t))

-----------------------------------------------------------------------------
(* FoundryCLI.                                                             *)

\* the chat ids of the user interface
ChatIds == {"chat_a", "chat_b"}

\* the characters of f"{chat_id}"
IdStr(chat_id) ==
    CASE chat_id = "chat_a" -> <<"c","h","a","t","_","a">>
      [] chat_id = "chat_b" -> <<"c","h","a","t","_","b">>
      [] chat_id = None -> <<"N","o","n","e">>

\* the text of the n-th prompt, typed in the chat chat_id, and the text
\* the backend answers a prompt with
PromptText(chat_id, n) == IdStr(chat_id) \o <<" ">> \o IntStr(n)

ReplyText(prompt) == <<"r","e"," ">> \o prompt

\* the messages a user interface restores a chat with: none, or one it
\* has saved for that chat
SavedMessages(chat_id) ==
    { <<>>,
      <<[role |-> "user",
         content |-> PyStr(<<"o","l","d"," ">> \o IdStr(chat_id))]>> }

\* self._chat_sessions[chat_id] = [] when chat_id has no session yet
WithSession(sessions, chat_id) ==
    [c \in DOMAIN sessions \cup {chat_id} |->
        IF c \in DOMAIN sessions THEN sessions[c] ELSE <<>>]

\* self._chat_sessions[chat_id].append(message)
SessionAppend(sessions, chat_id, message) ==
    [sessions EXCEPT ![chat_id] = Append(@, message)]

\* f"{chat_id}_{len(self._chat_sessions[chat_id])}"
cache_key(chat_id, n) == IdStr(chat_id) \o <<"_">> \o IntStr(n)

\* k.startswith(prefix)
startswith(k, prefix) ==
    Len(k) >= Len(prefix) /\ SubSeq(k, 1, Len(prefix)) = prefix

\* Invalidated as a bug would have it: no key is removed
Invalidated_nothing(cache, chat_id) == cache

\* the cache once the keys that start with f"{chat_id}_" are deleted
Invalidated(cache, chat_id) ==
    LET prefix == IdStr(chat_id) \o <<"_">>
    IN  [k \in {k \in DOMAIN cache : ~startswith(k, prefix)} |-> cache[k]]

\* self._context_cache[cache_key] = context
Cached(cache, key, context) ==
    [k \in DOMAIN cache \cup {key} |->
        IF k = key THEN context ELSE cache[k]]

\* the dicts {"role", "content"} made of messages[:-1], as new objects
formatted_messages(messages) ==
    [i \in 1..(Len(messages) - 1) |->
        [role |-> messages[i].role, content |-> messages[i].content,
         id |-> i]]

RECURSIVE context_parts(_, _)
\* "\n".join(context_parts) for the messages of truncated from k on
context_parts(truncated, k) ==
    IF k > Len(truncated) THEN <<>>
    ELSE LET msg == truncated[k]
             part == IF msg.role = "user"
                     THEN <<<<"U","s","e","r",":"," ">> \o msg.content.val>>
                     ELSE IF msg.role = "assistant"
                     THEN <<<<"A","s","s","i","s","t","a","n","t",":"," ">>
                            \o msg.content.val>>
                     ELSE <<>>
             rest == context_parts(truncated, k + 1)
         IN  IF part = <<>> THEN rest
             ELSE IF rest = <<>> THEN part[1]
             ELSE part[1] \o <<"\n">> \o rest

\* _build_context_for_chat past the cache, on a session that is not
\* empty: the messages truncate_messages of ContextManager(4096, 512)
\* returns for all but the last one, and the context made of them
built_context(messages) ==
    LET Built(truncated) ==
            LET Terminated(context) ==
                    [truncated |-> truncated,
                     context |-> IF context # <<>>
                                 THEN context \o <<"\n", "\n">>
                                 ELSE context]
            IN  Terminated(context_parts(truncated, 1))
    IN  Built(truncate_messages(formatted_messages(messages),
                                4096 - 512).out.ret)

\* a FoundryCLI and a ContextManager nobody calls
InitChat == Constructed(4096, 512)

\* start_chat(model): the backend process and the reader thread start
StartChat ==
    /\ main = Idle
    /\ _proc = None
    /\ _proc' = "running"
    /\ _reader_thread' = "alive"
    /\ UNCHANGED <<_chat_sessions, _current_chat_id, _buffer, pending,
                   sent, main, _context_cache, reader>>
    /\ UNCHANGED <<max_tokens, reserve_tokens, available_tokens, history,
                   call>>
    /\ UNCHANGED <<_current_request_id, tracker>>

\* send_prompt(prompt, chat_id): with a chat id, up to the append to the
\* session; without one (chat_id is None) the prompt is the full prompt
\* and the call goes on to the request id; with a process that is not
\* running it returns None and changes nothing
SendPromptText(chat_id, prompt) ==
    /\ main = Idle
    /\ _proc = "running"
    /\ sent < MaxPrompts
    /\ sent' = sent + 1
    /\ IF chat_id # None
       THEN /\ _chat_sessions' =
                   SessionAppend(WithSession(_chat_sessions, chat_id),
                                 chat_id,
                                 [role |-> "user",
                                  content |-> PyStr(prompt)])
            /\ main' = [op |-> "send_prompt", at |-> "set_current",
                        chat_id |-> chat_id, prompt |-> prompt]
       ELSE /\ _chat_sessions' = _chat_sessions
            /\ main' = [op |-> "send_prompt", at |-> "write",
                        chat_id |-> chat_id, prompt |-> prompt,
                        cached |-> FALSE, truncated |-> <<>>,
                        context |-> <<>>]
    /\ UNCHANGED <<_proc, _reader_thread, _current_chat_id, _buffer,
                   pending, _context_cache, reader>>
    /\ UNCHANGED <<max_tokens, reserve_tokens, available_tokens, history,
                   call>>
    /\ UNCHANGED <<_current_request_id, tracker>>

\* send_prompt with the next prompt of the chat
SendPrompt(chat_id) ==
    SendPromptText(chat_id, PromptText(chat_id, sent + 1))

\* send_prompt: self._current_chat_id = chat_id
SendPromptSetCurrent ==
    /\ main.op = "send_prompt"
    /\ main.at = "set_current"
    /\ _current_chat_id' = main.chat_id
    /\ main' = [main EXCEPT !.at = "build"]
    /\ UNCHANGED <<_proc, _reader_thread, _chat_sessions, _buffer, pending,
                   sent, _context_cache, reader>>
    /\ UNCHANGED <<max_tokens, reserve_tokens, available_tokens, history,
                   call>>
    /\ UNCHANGED <<_current_request_id, tracker>>

\* a caller calls _build_context_for_chat(chat_id)
BuildContextForChat(chat_id) ==
    /\ main = Idle
    /\ main' = [op |-> "_build_context_for_chat", at |-> "build",
                chat_id |-> chat_id]
    /\ UNCHANGED <<_proc, _reader_thread, _chat_sessions, _current_chat_id,
                   _buffer, pending, sent, _context_cache, reader>>
    /\ UNCHANGED <<max_tokens, reserve_tokens, available_tokens, history,
                   call>>
    /\ UNCHANGED <<_current_request_id, tracker>>

\* where the thread goes once _build_context_for_chat has returned:
\* send_prompt goes on to write, another caller holds the value returned
AfterBuild(m, cached, truncated, context) ==
    [k \in DOMAIN m \cup {"cached", "truncated", "context"} |->
        CASE k = "at" -> IF m.op = "send_prompt" THEN "write" ELSE "return"
          [] k = "cached" -> cached
          [] k = "truncated" -> truncated
          [] k = "context" -> context
          [] OTHER -> m[k]]

\* _build_context_for_chat up to the look in the cache: "" for a chat
\* without session or with an empty one, the cached context when the key
\* is in the cache, and otherwise on to the computation with that key
BuildLookup ==
    /\ main.op \in {"send_prompt", "_build_context_for_chat"}
    /\ main.at = "build"
    /\ IF main.chat_id \notin DOMAIN _chat_sessions
       THEN main' = AfterBuild(main, FALSE, <<>>, <<>>)
       ELSE LET key == cache_key(main.chat_id,
                                 Len(_chat_sessions[main.chat_id]))
            IN  IF key \in DOMAIN _context_cache
                THEN main' = AfterBuild(main, TRUE, <<>>,
                                        _context_cache[key])
                ELSE IF _chat_sessions[main.chat_id] = <<>>
                THEN main' = AfterBuild(main, FALSE, <<>>, <<>>)
                ELSE main' = [k \in DOMAIN main \cup {"cache_key"} |->
                                 CASE k = "at" -> "compute"
                                   [] k = "cache_key" -> key
                                   [] OTHER -> main[k]]
    /\ UNCHANGED <<_proc, _reader_thread, _chat_sessions, _current_chat_id,
                   _buffer, pending, sent, _context_cache, reader>>
    /\ UNCHANGED <<max_tokens, reserve_tokens, available_tokens, history,
                   call>>
    /\ UNCHANGED <<_current_request_id, tracker>>

\* _build_context_for_chat from messages[:-1] on: the context is made of
\* the session as it is now and cached under the key made before; after
\* unload_model the chat has no session and the read raises KeyError,
\* which ends the call
BuildCompute ==
    /\ main.op \in {"send_prompt", "_build_context_for_chat"}
    /\ main.at = "compute"
    /\ IF main.chat_id \in DOMAIN _chat_sessions
       THEN \E built \in {built_context(_chat_sessions[main.chat_id])} :
                /\ _context_cache' = Cached(_context_cache, main.cache_key,
                                            built.context)
                /\ main' = AfterBuild(main, FALSE, built.truncated,
                                      built.context)
       ELSE /\ _context_cache' = _context_cache
            /\ main' = Idle
    /\ UNCHANGED <<_proc, _reader_thread, _chat_sessions, _current_chat_id,
                   _buffer, pending, sent, reader>>
    /\ UNCHANGED <<max_tokens, reserve_tokens, available_tokens, history,
                   call>>
    /\ UNCHANGED <<_current_request_id, tracker>>

\* the caller of _build_context_for_chat has its value
BuildReturn ==
    /\ main.op = "_build_context_for_chat"
    /\ main.at = "return"
    /\ main' = Idle
    /\ UNCHANGED <<_proc, _reader_thread, _chat_sessions, _current_chat_id,
                   _buffer, pending, sent, _context_cache, reader>>
    /\ UNCHANGED <<max_tokens, reserve_tokens, available_tokens, history,
                   call>>
    /\ UNCHANGED <<_current_request_id, tracker>>

\* f"req_{int(time.time() * 1000)}" of the n-th send_prompt
req_id(n) == <<"r","e","q","_">> \o IntStr(n)

\* send_prompt from the request id on: the id is kept, the TokenTracker
\* starts a request (called with the request id as chat id and the chat
\* id as model name; its lock is free, no other thread calls it; the
\* number of the call stands for the id of the str object), and
\* context + prompt is written to the stdin of the process; pending
\* keeps the prompt that the backend will answer
SendPromptWrite ==
    /\ main.op = "send_prompt"
    /\ main.at = "write"
    /\ _current_request_id' = req_id(sent)
    /\ _pending_requests' =
           IF _current_chat_id # None
           THEN WithRequest(_pending_requests,
                    request_id(req_id(sent), "ui", sent),
                    [chat_id |-> req_id(sent),
                     user_input |-> main.context \o main.prompt,
                     model_name |-> _current_chat_id,
                     input_tokens |->
                         _estimate_input_tokens(main.context \o main.prompt,
                                                req_id(sent),
                                                _chat_tokens)])
           ELSE _pending_requests
    /\ pending' = Append(pending, main.prompt)
    /\ main' = Idle
    /\ UNCHANGED <<_proc, _reader_thread, _chat_sessions, _current_chat_id,
                   _buffer, sent, _context_cache, reader>>
    /\ UNCHANGED <<max_tokens, reserve_tokens, available_tokens, history,
                   call>>
    /\ UNCHANGED <<_chat_tokens, _lock, _callbacks, thread>>

\* switch_chat(new_chat_id): self._current_chat_id = new_chat_id
SwitchChat(new_chat_id) ==
    /\ main = Idle
    /\ _current_chat_id' = new_chat_id
    /\ main' = [op |-> "switch_chat", new_chat_id |-> new_chat_id]
    /\ UNCHANGED <<_proc, _reader_thread, _chat_sessions, _buffer, pending,
                   sent, _context_cache, reader>>
    /\ UNCHANGED <<max_tokens, reserve_tokens, available_tokens, history,
                   call>>
    /\ UNCHANGED <<_current_request_id, tracker>>

\* switch_chat: the session of the new chat is made if it does not exist
SwitchChatInit ==
    /\ main.op = "switch_chat"
    /\ _chat_sessions' = WithSession(_chat_sessions, main.new_chat_id)
    /\ main' = Idle
    /\ UNCHANGED <<_proc, _reader_thread, _current_chat_id, _buffer,
                   pending, sent, _context_cache, reader>>
    /\ UNCHANGED <<max_tokens, reserve_tokens, available_tokens, history,
                   call>>
    /\ UNCHANGED <<_current_request_id, tracker>>

\* the reader thread in _process_line, on the line that completes the
\* backend's answer to the oldest prompt it has not answered: the answer
\* joins _buffer and the first block of _buffer goes to _on_assistant_msg,
\* which appends it to the session of _current_chat_id, completes the
\* request of _current_request_id and goes on to the cache.  When that
\* chat has no session yet the append raises KeyError; when there is a
\* request id, the call complete_request(request_id, txt, chat_id) raises
\* TypeError after the append, the method taking two arguments.  After
\* either the block stays in _buffer and the cache is left alone; the
\* reader loop then goes on (select branch) or exits (the branch for
\* Windows).  After a block is cut out, _flush_buffer_if_needed may empty
\* what is left of _buffer, depending on the clock
ProcessLine ==
    /\ _reader_thread = "alive"
    /\ reader = Idle
    /\ pending # <<>>
    /\ pending' = Tail(pending)
    /\ LET buffer == Append(_buffer, ReplyText(Head(pending)))
           txt == Head(buffer)
       IN  IF _current_chat_id = None
           THEN /\ _chat_sessions' = _chat_sessions
                /\ _reader_thread' = _reader_thread
                /\ reader' = [at |-> "invalidate"]
                /\ \E flush \in BOOLEAN :
                       _buffer' = IF flush THEN <<>> ELSE Tail(buffer)
           ELSE IF _current_chat_id \notin DOMAIN _chat_sessions
           THEN /\ _chat_sessions' = _chat_sessions
                /\ _buffer' = buffer
                /\ reader' = reader
                /\ _reader_thread' \in {"alive", "exited"}
           ELSE /\ _chat_sessions' =
                       SessionAppend(_chat_sessions, _current_chat_id,
                           [role |-> "assistant", content |-> PyStr(txt)])
                /\ IF _current_request_id # None
                   THEN /\ _buffer' = buffer
                        /\ reader' = reader
                        /\ _reader_thread' \in {"alive", "exited"}
                   ELSE /\ _reader_thread' = _reader_thread
                        /\ reader' = [at |-> "invalidate"]
                        /\ \E flush \in BOOLEAN :
                               _buffer' = IF flush THEN <<>>
                                          ELSE Tail(buffer)
    /\ UNCHANGED <<_proc, _current_chat_id, sent, main, _context_cache>>
    /\ UNCHANGED <<max_tokens, reserve_tokens, available_tokens, history,
                   call>>
    /\ UNCHANGED <<_current_request_id, tracker>>

\* the reader thread at the end of _on_assistant_msg: the keys of the
\* chat that is current now leave the cache
ReaderInvalidate ==
    /\ reader # Idle
    /\ _context_cache' = Invalidated(_context_cache, _current_chat_id)
    /\ reader' = Idle
    /\ UNCHANGED <<_proc, _reader_thread, _chat_sessions, _current_chat_id,
                   _buffer, pending, sent, main>>
    /\ UNCHANGED <<max_tokens, reserve_tokens, available_tokens, history,
                   call>>
    /\ UNCHANGED <<_current_request_id, tracker>>

\* restore_chat_context(chat_id, messages)
RestoreChatContext(chat_id, messages) ==
    /\ main = Idle
    /\ _chat_sessions' =
           [WithSession(_chat_sessions, chat_id) EXCEPT ![chat_id] = messages]
    /\ _context_cache' = Invalidated(_context_cache, chat_id)
    /\ UNCHANGED <<_proc, _reader_thread, _current_chat_id, _buffer,
                   pending, sent, main, reader>>
    /\ UNCHANGED <<max_tokens, reserve_tokens, available_tokens, history,
                   call>>
    /\ UNCHANGED <<_current_request_id, tracker>>

\* clear_chat_session(chat_id)
ClearChatSession(chat_id) ==
    /\ main = Idle
    /\ _chat_sessions' =
           IF chat_id \in DOMAIN _chat_sessions
           THEN [_chat_sessions EXCEPT ![chat_id] = <<>>]
           ELSE _chat_sessions
    /\ _context_cache' = Invalidated(_context_cache, chat_id)
    /\ UNCHANGED <<_proc, _reader_thread, _current_chat_id, _buffer,
                   pending, sent, main, reader>>
    /\ UNCHANGED <<max_tokens, reserve_tokens, available_tokens, history,
                   call>>
    /\ UNCHANGED <<_current_request_id, tracker>>

\* stop_chat as a bug would have it: the sessions are cleared
StopChat_clears ==
    /\ main = Idle
    /\ _proc = "running"
    /\ reader = Idle
    /\ _proc' = None
    /\ _reader_thread' = None
    /\ pending' = <<>>
    /\ _chat_sessions' = <<>>
    /\ UNCHANGED <<_current_chat_id, _buffer, sent, main,
                   _context_cache, reader>>
    /\ UNCHANGED <<max_tokens, reserve_tokens, available_tokens, history,
                   call>>
    /\ UNCHANGED <<_current_request_id, tracker>>

\* stop_chat(): the process ends, what it had not answered is lost, and
\* the reader thread, once it has finished its line, is joined
StopChat ==
    /\ main = Idle
    /\ _proc = "running"
    /\ reader = Idle
    /\ _proc' = None
    /\ _reader_thread' = None
    /\ pending' = <<>>
    /\ UNCHANGED <<_chat_sessions, _current_chat_id, _buffer, sent, main,
                   _context_cache, reader>>
    /\ UNCHANGED <<max_tokens, reserve_tokens, available_tokens, history,
                   call>>
    /\ UNCHANGED <<_current_request_id, tracker>>

\* unload_model(): the process ends, the reader thread is joined, and
\* the sessions, the cache, the current chat and the buffer are cleared
UnloadModel ==
    /\ main = Idle
    /\ reader = Idle
    /\ _proc' = None
    /\ _reader_thread' = None
    /\ pending' = <<>>
    /\ _chat_sessions' = <<>>
    /\ _context_cache' = <<>>
    /\ _current_chat_id' = None
    /\ _buffer' = <<>>
    /\ _current_request_id' = None
    /\ UNCHANGED <<sent, main, reader>>
    /\ UNCHANGED <<max_tokens, reserve_tokens, available_tokens, history,
                   call>>
    /\ UNCHANGED tracker

\* a user interface thread that sends prompts and switches chats, and the
\* reader thread
NextChat ==
    \/ StartChat
    \/ \E c \in ChatIds \cup {None} : SendPrompt(c)
    \/ SendPromptSetCurrent
    \/ BuildLookup
    \/ BuildCompute
    \/ SendPromptWrite
    \/ \E c \in ChatIds : SwitchChat(c)
    \/ SwitchChatInit
    \/ ProcessLine
    \/ ReaderInvalidate

SpecChat == InitChat /\ [][NextChat]_vars

\* 1800 commas: 1800 tokens, half the budget of 3584 and a little more
Big == SubSeq([i \in 1..1800 |-> ","], 1, 1800)

\* the prompts of a chat with long turns
TurnTexts == {Hi, Big}

\* a user interface thread that sends short and long prompts in one chat,
\* and the reader thread, which with a current chat and a request id
\* never gets to the cache
NextTurn ==
    \/ StartChat
    \/ \E t \in TurnTexts : sent < MaxTurns /\ SendPromptText("chat_a", t)
    \/ SendPromptSetCurrent
    \/ BuildLookup
    \/ BuildCompute
    \/ SendPromptWrite
    \/ ProcessLine

SpecTurn == InitChat /\ [][NextTurn]_vars

\* a user interface thread that sends prompts, restores and clears
\* chats, stops the chat and unloads the model, and the reader thread
NextStop ==
    \/ StartChat
    \/ \E c \in ChatIds \cup {None} :
           sent < MaxSessionPrompts /\ SendPrompt(c)
    \/ SendPromptSetCurrent
    \/ BuildLookup
    \/ BuildCompute
    \/ SendPromptWrite
    \/ ProcessLine
    \/ ReaderInvalidate
    \/ \E c \in ChatIds : \E messages \in SavedMessages(c) :
           RestoreChatContext(c, messages)
    \/ \E c \in ChatIds : ClearChatSession(c)
    \/ StopChat
    \/ UnloadModel

SpecStop == InitChat /\ [][NextStop]_vars

\* a user interface thread that sends prompts, switches, restores and
\* clears chats and asks for the context of a chat, and the reader thread
NextCache ==
    \/ StartChat
    \/ \E c \in ChatIds \cup {None} :
           sent < MaxSessionPrompts /\ SendPrompt(c)
    \/ SendPromptSetCurrent
    \/ \E c \in ChatIds : BuildContextForChat(c)
    \/ BuildLookup
    \/ BuildCompute
    \/ BuildReturn
    \/ SendPromptWrite
    \/ \E c \in ChatIds : SwitchChat(c)
    \/ SwitchChatInit
    \/ ProcessLine
    \/ ReaderInvalidate
    \/ \E c \in ChatIds : \E messages \in SavedMessages(c) :
           RestoreChatContext(c, messages)
    \/ \E c \in ChatIds : ClearChatSession(c)

SpecCache == InitChat /\ [][NextCache]_vars

\* a caller that only reconfigures the manager
NextConfig ==
    \/ \E n \in MaxInputs : SetMaxTokens(n)
    \/ \E n \in ReserveInputs : SetReserveTokens(n)

SpecConfig == InitConfig /\ [][NextConfig]_vars

\* ContextManager(): max_tokens=4096, reserve_tokens=512
InitDefault == Constructed(4096, 512)

\* a caller that only reconfigures a manager made with the defaults
SpecDefault == InitDefault /\ [][NextConfig]_vars

-----------------------------------------------------------------------------
(* What the claims talk about.  In a state with Called the caller is just  *)
(* back from truncate_messages: history is the list it passed, call.ret    *)
(* the list it got.                                                        *)

Called == call.op = "truncate_messages"

ReturnedList == Called /\ ~call.exc

SystemOf(list) == SelectSeq(list, IsSystem)

OthersOf(list) == SelectSeq(list, NotSystem)

IsUser(m) == Get(m, "role", PyNone) = "user"

\* the last element of a list, and the elements before it
Final(list) == list[Len(list)]

Earlier(list) == SubSeq(list, 1, Len(list) - 1)

\* the content-only estimate of a message
TokensOf(m) == estimate_tokens(Get(m, "content", EmptyStr))

\* the tokens of the system messages and of the last non-system message
RequiredTokens(list) ==
    LET sys == SumTokens(SystemOf(list))
        last == IF OthersOf(list) = <<>> THEN 0
                ELSE TokensOf(Final(OthersOf(list)))
    IN  IF sys = AttributeError \/ last = AttributeError
        THEN AttributeError
        ELSE sys + last

\* a dict without its identity: its items
Items(m) == [k \in DOMAIN m \ {"id"} |-> m[k]]

ItemsOf(list) == [i \in 1..Len(list) |-> Items(list[i])]

\* a dict without its identity and its content
OtherItems(m) == [k \in DOMAIN m \ {"id", "content"} |-> m[k]]

\* o is the dict x of the list passed, or a new dict that has the items
\* of x but for its content
Keeps(o, x) == o = x \/ (o.id <= 0 /\ OtherItems(o) = OtherItems(x))

RECURSIVE Embeds(_, _, _, _)
\* out[i..] is a subsequence of inp[j..], element by element under Keeps
Embeds(out, i, inp, j) ==
    IF i > Len(out) THEN TRUE
    ELSE IF j > Len(inp) THEN FALSE
    ELSE IF Keeps(out[i], inp[j]) THEN Embeds(out, i + 1, inp, j + 1)
    ELSE Embeds(out, i, inp, j + 1)

IsSubsequence(out, inp) == Embeds(out, 1, inp, 1)

\* no system message of the list follows a non-system message
SystemFirst(list) == list = SystemOf(list) \o OthersOf(list)

-----------------------------------------------------------------------------
(* The claims.                                                             *)

\* C1: the content-only token total of the list truncate_messages returns
\* is at most available_tokens, unless the system messages and the last
\* non-system message alone exceed available_tokens, and then the list is
\* exactly the system messages and the last message.
C1_OutputFitsBudget ==
    ReturnedList =>
        IF RequiredTokens(history) > available_tokens
        THEN call.ret = SystemOf(history) \o
                 (IF OthersOf(history) = <<>> THEN <<>>
                  ELSE <<Final(OthersOf(history))>>)
        ELSE estimate_total_tokens(call.ret) <= available_tokens

\* C2: when the history has a user message, the most recent one is in the
\* returned list, unmodified, also when the history ends with an
\* assistant message.
C2_LastUserKept ==
    (ReturnedList /\ SelectSeq(history, IsUser) # <<>>) =>
        LET users == SelectSeq(history, IsUser)
        IN  \E i \in 1..Len(call.ret) : call.ret[i] = users[Len(users)]

\* C3: when the history has a non-system message, the last element of the
\* returned list is the last non-system message of the history, unmodified.
C3_LastMessageLast ==
    (ReturnedList /\ OthersOf(history) # <<>>) =>
        /\ call.ret # <<>>
        /\ call.ret[Len(call.ret)] = Final(OthersOf(history))

\* C3 happens: the last non-system message alone is over the budget, it
\* is a question that a rescue would truncate, and it is returned as it is
C3_Witness ==
    /\ ReturnedList
    /\ OthersOf(history) # <<>>
    /\ available_tokens > 50
    /\ TokensOf(Final(OthersOf(history))) > available_tokens
    /\ _is_important_message(Final(OthersOf(history)))
    /\ Len(history) > 1
    /\ call.ret[Len(call.ret)] = history[Len(history)]

\* C4: every system message of the history is in the returned list exactly
\* once, unmodified, the system messages in their original order, whatever
\* the budget.
C4_SystemKept ==
    ReturnedList => SystemOf(call.ret) = SystemOf(history)

\* C4 happens: a budget below zero, two system messages around a
\* non-system message, all returned
C4_Witness ==
    /\ ReturnedList
    /\ available_tokens < 0
    /\ Len(SystemOf(history)) = 2
    /\ IsSystem(history[1])
    /\ ~IsSystem(history[2])
    /\ Len(SystemOf(call.ret)) = 2

\* C5 as stated: the returned list is a subsequence of the history.
C5_Subsequence ==
    ReturnedList => IsSubsequence(call.ret, history)

\* C5 amended: the returned list is the system messages of the history
\* followed by a subsequence of its non-system messages, so two kept
\* messages that are both system or both non-system keep their relative
\* order, and the list is a subsequence of the history when no system
\* message of the history follows a non-system message.
C5_SubsequencePerGroup ==
    ReturnedList =>
        /\ call.ret = SystemOf(call.ret) \o OthersOf(call.ret)
        /\ IsSubsequence(SystemOf(call.ret), SystemOf(history))
        /\ IsSubsequence(OthersOf(call.ret), OthersOf(history))
        /\ SystemFirst(history) => IsSubsequence(call.ret, history)

\* C5 amended happens: a system message after two non-system messages,
\* of which the older is returned as a truncated copy
C5_Witness ==
    /\ ReturnedList
    /\ Len(history) = 3
    /\ IsSystem(history[3])
    /\ Len(call.ret) = 3
    /\ call.ret[2].id <= 0
    /\ call.ret[2].content # history[1].content

\* C6: the returned list is all the system messages in their original
\* order, then selected earlier non-system messages in their original
\* order, then the last non-system message.
C6_Shape ==
    ReturnedList =>
        LET sys == SystemOf(history)
            others == OthersOf(history)
            n == Len(call.ret)
        IN  IF others = <<>> THEN call.ret = sys
            ELSE /\ n >= Len(sys) + 1
                 /\ SubSeq(call.ret, 1, Len(sys)) = sys
                 /\ call.ret[n] = Final(others)
                 /\ IsSubsequence(SubSeq(call.ret, Len(sys) + 1, n - 1),
                                  Earlier(others))

\* C6 happens: a system message in the middle of the history, two earlier
\* non-system messages selected, the last message last
C6_Witness ==
    /\ ReturnedList
    /\ Len(history) = 4
    /\ IsSystem(history[2])
    /\ Len(call.ret) = 4
    /\ call.ret[2] = history[1]
    /\ call.ret[3] = history[3]

\* C7: truncate_messages on the list it returned, with the same
\* configuration, returns that list again, message for message.
C7_Idempotent ==
    (Called /\ call.again) =>
        /\ ~call.exc
        /\ ItemsOf(call.ret) = ItemsOf(history)

\* the list passed to the call a step makes: the history, or for a call
\* on the list the call before returned, that list
Given == IF call'.again THEN Numbered(call.ret) ELSE history

\* C8: at most one message of the returned list is not a message of the
\* list passed; it is then a new dict with the items of a conversation
\* message of that list but for the content, and the call leaves every
\* dict of the list passed as it was.
C8_AtMostOneCopy ==
    [][(call'.op = "truncate_messages" /\ ~call'.exc) =>
        LET ret == call'.ret
            new == {i \in 1..Len(ret) :
                       \A j \in 1..Len(Given) : ret[i] # Given[j]}
            conv == Earlier(OthersOf(Given))
        IN  /\ history' = Given
            /\ Cardinality(new) <= 1
            /\ \A i \in new :
                   /\ "content" \in DOMAIN ret[i]
                   /\ \A j \in 1..Len(Given) : ret[i].id # Given[j].id
                   /\ \E j \in 1..Len(conv) :
                          OtherItems(ret[i]) = OtherItems(conv[j])
       ]_vars

\* C8 happens: the returned list has a new dict with a shorter content
\* than the question it copies, and the question is still in the history
C8_Witness ==
    /\ ReturnedList
    /\ ~call.again
    /\ \E i \in 1..Len(call.ret) : \E j \in 1..Len(history) :
           /\ call.ret[i].id <= 0
           /\ OtherItems(call.ret[i]) = OtherItems(history[j])
           /\ Len(call.ret[i].content.val) < Len(history[j].content.val)
           /\ history[j].content = PyStr(HowSentences)

\* C9: when available_tokens minus the tokens of the system messages and
\* of the last non-system message is <= 0, truncate_messages raises
\* nothing and returns the system messages followed by the last
\* non-system message, with no conversation history.
C9_NoHistoryWithoutSpace ==
    ( /\ Called
      /\ OthersOf(history) # <<>>
      /\ RequiredTokens(history) # AttributeError
      /\ available_tokens - RequiredTokens(history) <= 0 ) =>
        /\ ~call.exc
        /\ call.ret = SystemOf(history) \o <<Final(OthersOf(history))>>

\* C9 happens: the required messages take the budget to the token, and
\* the conversation dropped holds a content the estimator cannot read
C9_Witness ==
    /\ ReturnedList
    /\ OthersOf(history) # <<>>
    /\ available_tokens > 0
    /\ available_tokens - RequiredTokens(history) = 0
    /\ \E i \in 1..Len(history) :
           /\ Get(history[i], "content", EmptyStr) = PyInt(7)
           /\ \A j \in 1..Len(call.ret) : call.ret[j] # history[i]

\* C10: after set_max_tokens(n), max_tokens >= 1024, and after
\* set_reserve_tokens(n), reserve_tokens >= 256, for every n: an argument
\* below the floor gives the floor, and no argument is refused.
C10_SettersClamp ==
    /\ call.op = "set_max_tokens" =>
           /\ max_tokens >= 1024
           /\ call.arg < 1024 => max_tokens = 1024
    /\ call.op = "set_reserve_tokens" =>
           /\ reserve_tokens >= 256
           /\ call.arg < 256 => reserve_tokens = 256
    /\ \A n \in MaxInputs : ENABLED SetMaxTokens(n)
    /\ \A n \in ReserveInputs : ENABLED SetReserveTokens(n)

\* C10 happens: a manager made with max_tokens=100 and reserve_tokens=0
\* has had set_reserve_tokens and then set_max_tokens(-1)
C10_Witness ==
    /\ call = [op |-> "set_max_tokens", arg |-> -1]
    /\ max_tokens = 1024
    /\ reserve_tokens = 256

\* C11: in every state reached by constructing a manager and calling the
\* setters in any order, available_tokens = max_tokens - reserve_tokens,
\* and a setter leaves the other knob as it was.
C11_AvailableDerived ==
    /\ [](available_tokens = max_tokens - reserve_tokens)
    /\ [][/\ call'.op = "set_max_tokens" => reserve_tokens' = reserve_tokens
          /\ call'.op = "set_reserve_tokens" => max_tokens' = max_tokens
         ]_vars

\* C11 happens: set_max_tokens(0) and then set_reserve_tokens(5000) on a
\* manager made with the defaults; both knobs and the derived value moved
C11_Witness ==
    /\ call = [op |-> "set_reserve_tokens", arg |-> 5000]
    /\ max_tokens = 1024
    /\ reserve_tokens = 5000
    /\ available_tokens = -3976

\* C12: in every state of a manager, the state right after construction
\* included, max_tokens >= 1024 and reserve_tokens >= 256.
C12_FloorsAlways ==
    /\ max_tokens >= 1024
    /\ reserve_tokens >= 256

ExactProduct == {100}

\* the max_tokens of UsageArgs whose float product is just below 70%
ProductBelow == {90}

C14_NoSideEffects ==
    [][call'.op = "truncate_messages" =>
        /\ Len(history') = Len(Given)
        /\ \A i \in 1..Len(Given) :
               /\ history'[i].id = Given[i].id
               /\ Items(history'[i]) = Items(Given[i])
        /\ max_tokens' = max_tokens
        /\ reserve_tokens' = reserve_tokens
        /\ available_tokens' = available_tokens
       ]_vars

\* C14 happens: a call dropped a message and returned a shortened copy of
\* another, and the history still has four dicts as they were appended
C14_Witness ==
    /\ ReturnedList
    /\ ~call.again
    /\ Len(history) = 4
    /\ Len(call.ret) = 3
    /\ \E i \in 1..Len(call.ret) : call.ret[i].id <= 0
    /\ \A j \in 1..Len(history) :
           /\ history[j].id = j
           /\ Items(history[j]) \in MessagePool
    /\ available_tokens = max_tokens - reserve_tokens

\* C15 as stated: a history whose system messages come first and whose
\* content-only total is at most available_tokens is returned unchanged.
C15_Unchanged ==
    ( /\ Called
      /\ SystemFirst(history)
      /\ estimate_total_tokens(history) # AttributeError
      /\ estimate_total_tokens(history) <= available_tokens ) =>
        /\ ~call.exc
        /\ call.ret = history

\* C15 amended: such a history is returned unchanged when the system
\* messages and the last non-system message take less than
\* available_tokens or there is no earlier non-system message; when they
\* take available_tokens to the token, the earlier non-system messages,
\* all of 0 tokens, are left out.
C15_UnchangedWithSpace ==
    ( /\ Called
      /\ SystemFirst(history)
      /\ estimate_total_tokens(history) # AttributeError
      /\ estimate_total_tokens(history) <= available_tokens ) =>
        /\ ~call.exc
        /\ IF \/ Len(OthersOf(history)) <= 1
              \/ RequiredTokens(history) < available_tokens
           THEN call.ret = history
           ELSE call.ret =
                    SystemOf(history) \o <<Final(OthersOf(history))>>

\* C15 amended happens: a budget of one token, a history of one token
\* that ends with a message without content, returned whole
C15_Witness ==
    /\ ReturnedList
    /\ available_tokens = 1
    /\ estimate_total_tokens(history) = 1
    /\ Len(history) = 3
    /\ TokensOf(history[3]) = 0
    /\ Len(call.ret) = 3

RECURSIVE Units(_, _, _)
\* the word-runs and the single characters that are neither word nor
\* white space of s[k..], in_word telling that s[k-1] is in a word-run
Units(s, k, in_word) ==
    IF k > Len(s) THEN 0
    ELSE IF s[k] \in {"a", "_"}
         THEN (IF in_word THEN 0 ELSE 1) + Units(s, k + 1, TRUE)
    ELSE IF s[k] = ","
         THEN 1 + Units(s, k + 1, FALSE)
    ELSE Units(s, k + 1, FALSE)

\* s without its leading and trailing white space
RECURSIVE Stripped(_)
Stripped(s) ==
    IF s = <<>> THEN s
    ELSE IF Head(s) \in {" ", "\n"} THEN Stripped(Tail(s))
    ELSE IF s[Len(s)] \in {" ", "\n"}
         THEN Stripped(SubSeq(s, 1, Len(s) - 1))
    ELSE s

\* C16: estimate_tokens(text) is 0 for an empty or whitespace-only text
\* and otherwise the larger of the number of word-runs plus single
\* non-whitespace non-word characters of the stripped text and of
\* ceil(len(stripped text) / 4); it is a non-negative integer.
C16_LargerEstimate ==
    call.op = "estimate_tokens" =>
        LET t == Stripped(call.arg.val)
            units == Units(t, 1, FALSE)
            quarters == CHOOSE c \in 0..Len(t) :
                            4 * c >= Len(t) /\ 4 * (c - 1) < Len(t)
        IN  /\ ~call.exc
            /\ call.ret \in Nat
            /\ (\A i \in 1..Len(call.arg.val) :
                       call.arg.val[i] \in {" ", "\n"}) => call.ret = 0
            /\ t # <<>> =>
                   /\ call.ret >= units
                   /\ call.ret >= quarters
                   /\ call.ret \in {units, quarters}

\* C16 happens: "aaaaa" is one word-run and two tokens by its length
C16_Witness ==
    /\ call.op = "estimate_tokens"
    /\ call.arg = PyStr(<<"a", "a", "a", "a", "a">>)
    /\ call.ret = 2

RECURSIVE SumOver(_, _)
\* the sum of Tokens(m) + 4 over the messages of a list, Tokens given as
\* a function on the messages
SumOver(list, tokens) ==
    IF list = <<>> THEN 0
    ELSE tokens[Head(list)] + 4 + SumOver(Tail(list), tokens)

C18_NeverRaises ==
    call.op \in {"truncate_messages", "estimate_total_tokens",
                 "should_summarize"} =>
        /\ ~call.exc
        /\ call.op = "estimate_total_tokens" =>
               call.ret =
                   SumOver(history,
                       [m \in {history[i] : i \in 1..Len(history)} |->
                           IF "content" \in DOMAIN m
                              /\ m.content.type = "str"
                           THEN estimate_tokens(m.content) ELSE 0])
                   - 4 * Len(history)

\* the chat a text belongs to: the chat its prompt was sent with
ChatOf(content) ==
    IF \E c \in ChatIds : Contains(IdStr(c), content.val)
    THEN CHOOSE c \in ChatIds : Contains(IdStr(c), content.val)
    ELSE None

\* C19: whatever the interleaving of send_prompt, switch_chat and the
\* replies the reader thread delivers, the session of a chat holds only
\* the prompts sent with that chat id and the replies to those prompts.
C19_ChatIsolation ==
    \A c \in DOMAIN _chat_sessions :
        \A i \in 1..Len(_chat_sessions[c]) :
            ChatOf(_chat_sessions[c][i].content) = c

\* the part of the returned list between the system messages and the
\* last message: the history _select_conversation_history selected
SelectedOf(ret, list) ==
    SubSeq(ret, Len(SystemOf(list)) + 1, Len(ret) - 1)

\* C20: the first message that does not fit ends the scan: the selected
\* history is a contiguous suffix of the conversation messages, with at
\* most its oldest element replaced by a truncated copy.
C20_ContiguousSuffix ==
    (ReturnedList /\ OthersOf(history) # <<>>) =>
        LET conv == Earlier(OthersOf(history))
            sel == SelectedOf(call.ret, history)
            skip == Len(conv) - Len(sel)
        IN  /\ skip >= 0
            /\ \A i \in 1..Len(sel) :
                   IF i = 1 THEN Keeps(sel[i], conv[skip + i])
                   ELSE sel[i] = conv[skip + i]

\* the conversation messages of a list: its non-system messages but the
\* last
ConversationOf(list) == Earlier(OthersOf(list))

\* every conversation message of the list has a str content
StrContents(list) ==
    \A i \in 1..Len(list) : Get(list[i], "content", EmptyStr).type = "str"

RECURSIVE ContentSum(_)
\* the content tokens of a list of messages with str contents
ContentSum(list) ==
    IF list = <<>> THEN 0 ELSE TokensOf(Head(list)) + ContentSum(Tail(list))

\* the messages of a list after its first k
After(list, k) == SubSeq(list, k + 1, Len(list))

\* C21: when no conversation message is important, the history selected
\* for the budget B is the longest suffix of the conversation messages
\* whose content tokens sum to at most B.
C21_LongestSuffix ==
    ( /\ ReturnedList
      /\ OthersOf(history) # <<>>
      /\ StrContents(history)
      /\ available_tokens - RequiredTokens(history) > 0
      /\ \A i \in 1..Len(ConversationOf(history)) :
             ~_is_important_message(ConversationOf(history)[i]) ) =>
        LET conv == ConversationOf(history)
            B == available_tokens - RequiredTokens(history)
            k == CHOOSE k \in 0..Len(conv) :
                     /\ ContentSum(After(conv, k)) <= B
                     /\ \A j \in 0..(k - 1) : ContentSum(After(conv, j)) > B
        IN  SelectedOf(call.ret, history) = After(conv, k)

\* C21 happens: of three routine messages the newest is selected, the
\* next does not fit, and the oldest, which would fit to the token, is
\* left out too
C21_Witness ==
    /\ ReturnedList
    /\ ~call.again
    /\ Len(history) = 4
    /\ StrContents(history)
    /\ ConversationOf(history) = SubSeq(history, 1, 3)
    /\ \A i \in 1..3 : ~_is_important_message(history[i])
    /\ TokensOf(history[1]) = 1
    /\ TokensOf(history[2]) = 52
    /\ TokensOf(history[1]) + ContentSum(SubSeq(history, 3, 4))
           = available_tokens
    /\ SelectedOf(call.ret, history) = <<history[3]>>

\* the content of a message has one of the markers
HasMarker(m, markers) ==
    \E marker \in markers : Contains(marker, lower(m.content.val))

\* C22: a truncated copy is in the selected history only as its oldest
\* element, and only for a conversation message that did not fit the
\* budget left by the messages selected before it, that is a user or an
\* assistant message with one of the markers of its role, when fewer than
\* 2 messages were selected and more than 50 tokens were left.
C22_RescueOnlyWhen ==
    (ReturnedList /\ OthersOf(history) # <<>>) =>
        LET conv == ConversationOf(history)
            sel == SelectedOf(call.ret, history)
            B == available_tokens - RequiredTokens(history)
            used == ContentSum(Tail(sel))
        IN  \A i \in 1..Len(sel) :
                sel[i].id <= 0 =>
                    /\ i = 1
                    /\ Len(Tail(sel)) < 2
                    /\ B - used > 50
                    /\ \E j \in 1..Len(conv) :
                           /\ OtherItems(sel[1]) = OtherItems(conv[j])
                           /\ \A n \in 2..Len(sel) :
                                  \E k \in (j + 1)..Len(conv) :
                                      sel[n] = conv[k]
                           /\ TokensOf(conv[j]) + used > B
                           /\ \/ /\ conv[j].role = "user"
                                 /\ HasMarker(conv[j], UserMarkers)
                              \/ /\ conv[j].role = "assistant"
                                 /\ HasMarker(conv[j], AssistantMarkers)

\* C22 happens: a numbered answer is rescued as a copy after one message
\* was selected, and the older question in a message of another role,
\* which does not fit either, is not in the returned list
C22_Witness ==
    /\ ReturnedList
    /\ Len(history) = 4
    /\ history[1].role = "tool"
    /\ history[2].content = PyStr(Steps)
    /\ Len(call.ret) = 3
    /\ call.ret[1].id <= 0
    /\ call.ret[1].role = "assistant"
    /\ call.ret[2] = history[3]

\* C23: the string _truncate_content returns has at most max_tokens
\* tokens, and it is the content itself whenever the content fits.
C23_TruncatedFits ==
    call.op = "_truncate_content" =>
        /\ StrTokens(call.ret) <= call.max_tokens
        /\ StrTokens(call.content) <= call.max_tokens =>
               call.ret = call.content

Summarized == call.op = "summarize_context"

\* the lines of a text: what is between its newlines
Lines(text) ==
    LET breaks == {i \in 1..Len(text) : text[i] = "\n"} \cup {0, Len(text) + 1}
        Nth(k) == CHOOSE i \in breaks :
                      Cardinality({b \in breaks : b < i}) = k - 1
    IN  [k \in 1..(Cardinality(breaks) - 1) |->
            SubSeq(text, Nth(k) + 1, Nth(k + 1) - 1)]

\* C24: summarize_context returns the empty string when there is no turn
\* (as for an empty history or one of system messages only), the fallback
\* naming the number of turns when there are turns but no point, and
\* otherwise the header line followed by the first points, one per line
\* after "- ", at least 1 and at most 5 of them.
C24_ThreeShapes ==
    Summarized =>
        LET turns == call.turns
            points == call.summary_points
            lines == Lines(call.ret)
        IN  /\ OthersOf(history) = <<>> => turns = <<>>
            /\ \/ turns = <<>> /\ call.ret = <<>>
               \/ /\ turns # <<>>
                  /\ points = <<>>
                  /\ call.ret = Involved \o IntStr(Len(turns)) \o Exchanges
               \/ /\ turns # <<>>
                  /\ points # <<>>
                  /\ lines[1] \o <<"\n">> = Header
                  /\ Len(lines) - 1 \in 1..5
                  /\ Len(lines) - 1 = Len(points) \/ Len(points) > 5
                  /\ \A k \in 2..Len(lines) :
                         lines[k] = Dash \o points[k - 1]

\* C24 happens: three turns give 6 points, and the summary has the header
\* and the first 5 of them, the user's point of the first turn first
C24_Witness ==
    /\ Summarized
    /\ Len(call.turns) = 3
    /\ Len(call.summary_points) = 6
    /\ Len(Lines(call.ret)) = 6
    /\ Lines(call.ret)[2] = Dash \o UserAskedAbout \o <<"s","o","r","t"," ","a"," ","l","i","s","t">>
    /\ Lines(call.ret)[6] = Dash \o UserAskedAbout \o <<"s","o","r","t"," ","a"," ","l","i","s","t">>

RECURSIVE Flatten(_)
\* the messages of the turns, one turn after the other
Flatten(turns) ==
    IF turns = <<>> THEN <<>> ELSE Head(turns) \o Flatten(Tail(turns))

\* every turn has 1 or 2 messages, a turn of 1 is an assistant message,
\* and a turn of 2 starts with a message that is not an assistant's
TurnsClosedWhenComplete(turns) ==
    \A k \in 1..Len(turns) :
        /\ Len(turns[k]) \in {1, 2}
        /\ Len(turns[k]) = 1 => turns[k][1].role = "assistant"
        /\ Len(turns[k]) = 2 => turns[k][1].role # "assistant"

\* C25 as stated: the turns are closed when they hold 2 messages or end
\* with an assistant message, and they are, one after the other, all the
\* non-system messages of the history.
C25_EveryMessageInATurn ==
    Summarized =>
        /\ TurnsClosedWhenComplete(call.turns)
        /\ Flatten(call.turns) = OthersOf(history)

\* C25, amended: the turns are closed when they hold 2 messages or end
\* with an assistant message, and they are, one after the other, the
\* non-system messages of the history but for the last one, when that is
\* not an assistant message and the turns before it are closed: it is
\* left in the turn that is never closed, and belongs to no turn.
C25_AllButAnOpenTurn ==
    Summarized =>
        LET others == OthersOf(history)
            flat == Flatten(call.turns)
        IN  /\ TurnsClosedWhenComplete(call.turns)
            /\ \/ flat = others
               \/ /\ Len(flat) = Len(others) - 1
                  /\ flat = SubSeq(others, 1, Len(others) - 1)
                  /\ others[Len(others)].role # "assistant"

\* C25 happens: an assistant message is a turn of its own, the two user
\* messages after it are a turn, and a third user message is in no turn
C25_Witness ==
    /\ Summarized
    /\ Len(OthersOf(history)) = 4
    /\ Len(call.turns) = 2
    /\ Len(call.turns[1]) = 1
    /\ Len(call.turns[2]) = 2
    /\ call.turns[2][2] = OthersOf(history)[3]

\* C26: when send_prompt writes to the backend, the content tokens of the
\* context messages and of the current prompt together are at most
\* available_tokens (4096 - 512), unless the prompt alone is above it.
C26_TurnFitsBudget ==
    (main.op = "send_prompt" /\ main.at = "write" /\ ~main.cached) =>
        \/ SumTokens(main.truncated) + StrTokens(main.prompt) <= 4096 - 512
        \/ StrTokens(main.prompt) > 4096 - 512

\* a session of before the step is not a prefix of what it is after
Emptied ==
    \E c \in DOMAIN _chat_sessions :
        \/ c \notin DOMAIN _chat_sessions'
        \/ Len(_chat_sessions'[c]) < Len(_chat_sessions[c])
        \/ SubSeq(_chat_sessions'[c], 1, Len(_chat_sessions[c]))
               # _chat_sessions[c]

\* C27: stop_chat leaves every session as it is, and a step after which
\* a session has lost a message is one of clear_chat_session,
\* restore_chat_context and unload_model.
C27_SessionsPersist ==
    [][/\ StopChat => _chat_sessions' = _chat_sessions
       /\ Emptied =>
              \/ UnloadModel
              \/ \E c \in ChatIds : ClearChatSession(c)
              \/ \E c \in ChatIds : \E messages \in SavedMessages(c) :
                     RestoreChatContext(c, messages)]_vars

\* C27 happens: the prompt of chat_a is in its session, the process that
\* had not answered it was stopped, and a new one is running
C27_Witness ==
    /\ _proc = "running"
    /\ main = Idle
    /\ sent = 1
    /\ pending = <<>>
    /\ DOMAIN _chat_sessions = {"chat_a"}
    /\ _chat_sessions["chat_a"] =
           <<[role |-> "user", content |-> PyStr(PromptText("chat_a", 1))]>>

\* the context _build_context_for_chat makes of a session without the
\* cache
FreshContext(messages) ==
    IF messages = <<>> THEN <<>> ELSE built_context(messages).context

\* C29: when _build_context_for_chat returns a context from the cache, it
\* is the context it would make of the session of the chat as it is.
C29_CacheCoherent ==
    [][( /\ main.op \in {"send_prompt", "_build_context_for_chat"}
         /\ main.at = "build"
         /\ main'.op = main.op
         /\ main'.at \in {"write", "return"}
         /\ main'.cached ) =>
            main'.context = FreshContext(_chat_sessions[main.chat_id])]_vars

\* C29 happens: a context that is not empty comes from the cache
C29_Witness ==
    /\ main.op = "_build_context_for_chat"
    /\ main.at = "return"
    /\ main.cached
    /\ main.context # <<>>

\* C30: every call of the tracker that a thread is in returns:
\* complete_request returns whatever its callbacks do, a callback that
\* calls a method of the tracker included, and a call of another thread
\* goes on in the end.
C30_TrackerCallsReturn ==
    \A t \in Threads : (thread[t] # <<>>) ~> (thread[t] = <<>>)

\* C28: in every state reached from a manager made with the defaults by
\* calls of set_max_tokens and set_reserve_tokens, available_tokens > 0:
\* reserve_tokens stays below max_tokens.
C28_AvailablePositive ==
    available_tokens > 0 /\ reserve_tokens < max_tokens

=============================================================================
